---- MODULE Spec2Model ----
(***************************************************************************)
(* Verification model of datafusion-spatial:                               *)
(*   - the ST_Extent accumulator (src/src/udafs/extent.rs) and the         *)
(*     coordinate-extent primitive min_max_2d (src/src/compute.rs);        *)
(*   - the SpatialAnalyzerRule plan rewrite (src/src/rules.rs);            *)
(*   - the WKT writer (src/src/wkt) and the scalar kernels ST_AsText,      *)
(*     ST_GeometryType and ST_Envelope (src/src/udfs).                     *)
(*                                                                         *)
(* f64 values are modelled by integers: finite coordinates are small       *)
(* integers, f64::MAX / f64::MIN / +inf / -inf are sentinels ordered as in *)
(* IEEE-754, and NaN is a value that is unordered against everything.      *)
(***************************************************************************)
EXTENDS Integers, Sequences, FiniteSets, TLC

VARIABLES
    acc,        \* SpecExtent: the ExtentAccumulator {xmin, ymin, xmax, ymax}
    op,         \* SpecExtent: name of the last Accumulator method that ran
    ret,        \* SpecExtent: value returned by the last method
    given,      \* SpecExtent: size of the argument of the last method
    single,     \* SpecPartition: accumulator that sees every batch
    parts,      \* SpecPartition: one accumulator per partition
    final,      \* SpecPartition: accumulator that merges the partial states
    prevFinal,  \* SpecPartition: `final` as it was before the last merge_batch
    srcs,       \* SpecPartition: partitions whose state() rows the last merge_batch read
    merged,     \* SpecPartition: partitions whose state has been merged
    fed,        \* SpecPartition: number of batches fed so far
    phase,      \* SpecPartition: "update" | "merge" | "done" | "failed"
    plan,       \* SpecAnalyzer: the plan under rewrite, nodes in post-order
    input,      \* SpecAnalyzer: the plan handed to the running analyze call
    geometa,    \* SpecAnalyzer: the map table name -> geo metadata of this call
    pos,        \* SpecAnalyzer: the node transform_up visits next
    tnr,        \* SpecAnalyzer: TreeNodeRecursion left by the last visited node
    pass,       \* SpecAnalyzer: number of analyze calls started on the plan
    status,     \* SpecAnalyzer: "idle" | "running" | "ok" | "err" | "panic"
    invocation, \* SpecKernels: the function under call and its arguments
    result      \* SpecKernels: what the call returned, "pending" before it ran

extentVars == <<acc, op, ret, given>>
partVars == <<single, parts, final, prevFinal, srcs, merged, fed, phase>>
anVars == <<plan, input, geometa, pos, tnr, pass, status>>
kernVars == <<invocation, result>>
vars == <<acc, op, ret, given, single, parts, final, prevFinal, srcs, merged, fed, phase,
          plan, input, geometa, pos, tnr, pass, status, invocation, result>>

----------------------------------------------------------------------------
(* Bounds of the model *)

MaxVal == 1         \* the greatest finite coordinate
MaxCoords == 1      \* coordinates per generated batch
MaxRows == 2        \* rows of a partial-state array handed to merge_batch
NumPart == 2        \* partitions of the two-phase aggregation
MaxBatches == 2     \* batches fed to the two-phase aggregation
MaxPasses == 2      \* analyze calls applied to one plan
MaxTypes == 2       \* geometry types listed for one column of the geo metadata
MaxWktCoords == 2   \* coordinates of one line string or ring handed to the WKT writer
MaxParts == 2       \* rings of a polygon, members of a multi geometry or collection

----------------------------------------------------------------------------
(* f64 *)

F64_MAX == 1000
F64_MIN == 0 - 1000
INFINITY == 1001
NEG_INFINITY == 0 - 1001
NAN == 2000

is_nan(x) == x = NAN

\* `a < b` and `a > b` on f64: false when either side is NaN
f64_lt(a, b) == ~is_nan(a) /\ ~is_nan(b) /\ a < b
f64_gt(a, b) == ~is_nan(a) /\ ~is_nan(b) /\ a > b

\* f64::min / f64::max: a NaN operand is ignored
f64_min(a, b) == IF is_nan(a) THEN b ELSE IF is_nan(b) THEN a ELSE IF a < b THEN a ELSE b
f64_max(a, b) == IF is_nan(a) THEN b ELSE IF is_nan(b) THEN a ELSE IF a > b THEN a ELSE b

\* Option<f64>: <<>> is None, <<v>> is Some(v)
None == <<>>
Some(v) == <<v>>
unwrap_or(o, d) == IF o = None THEN d ELSE o[1]

SeqRange(s) == {s[i] : i \in 1..Len(s)}
SetMin(S) == CHOOSE m \in S : \A x \in S : m <= x
SetMax(S) == CHOOSE m \in S : \A x \in S : m >= x

\* arrow::compute::min over a Float64Array without nulls: None when empty,
\* NaN compares greater than every other value
ArrowMin(s) ==
    IF Len(s) = 0 THEN None
    ELSE LET nn == SeqRange(s) \ {NAN}
         IN IF nn = {} THEN Some(NAN) ELSE Some(SetMin(nn))

\* arrow::compute::max: None when empty, NaN is the greatest value
ArrowMax(s) ==
    IF Len(s) = 0 THEN None
    ELSE IF NAN \in SeqRange(s) THEN Some(NAN) ELSE Some(SetMax(SeqRange(s)))

\* arrow::compute::filter with the predicate !is_nan
RECURSIVE FilterNotNan(_)
FilterNotNan(s) ==
    IF Len(s) = 0 THEN <<>>
    ELSE IF is_nan(Head(s)) THEN FilterNotNan(Tail(s))
         ELSE <<Head(s)>> \o FilterNotNan(Tail(s))

----------------------------------------------------------------------------
(* Coordinate buffers (geoarrow CoordBuffer<D>) *)

RECURSIVE Flatten(_)
Flatten(cs) == IF Len(cs) = 0 THEN <<>> ELSE Head(cs) \o Flatten(Tail(cs))

\* InterleavedCoordBuffer: one vector with stride D
Interleaved(D, cs) ==
    [kind |-> "Interleaved", dim |-> D, coords |-> Flatten(cs), buffers |-> <<>>]

\* SeparatedCoordBuffer: one vector per axis
Separated(D, cs) ==
    [kind |-> "Separated", dim |-> D, coords |-> <<>>,
     buffers |-> [a \in 1..D |-> [i \in 1..Len(cs) |-> cs[i][a]]]]

CoordBufferLen(cb) ==
    IF cb.kind = "Interleaved" THEN Len(cb.coords) \div cb.dim ELSE Len(cb.buffers[1])

\* the fold of the interleaved arm over chunks(D) starting at chunk i
RECURSIVE FoldChunks(_, _, _, _)
FoldChunks(flat, D, i, st) ==
    IF (i - 1) * D >= Len(flat) THEN st
    ELSE LET x == flat[(i - 1) * D + 1]
             y == flat[(i - 1) * D + 2]
             xmin == IF f64_lt(x, st[1][1]) THEN x ELSE st[1][1]
             xmax == IF f64_gt(x, st[2][1]) /\ ~is_nan(x) THEN x ELSE st[2][1]
             ymin == IF f64_lt(y, st[1][2]) THEN y ELSE st[1][2]
             ymax == IF f64_gt(y, st[2][2]) /\ ~is_nan(y) THEN y ELSE st[2][2]
         IN FoldChunks(flat, D, i + 1, <<<<xmin, ymin>>, <<xmax, ymax>>>>)

\* min_max_2d: ((xmin, ymin), (xmax, ymax)) of a coordinate buffer
min_max_2d(coords, empty_point_check) ==
    IF CoordBufferLen(coords) = 0
    THEN <<<<F64_MAX, F64_MAX>>, <<F64_MIN, F64_MIN>>>>
    ELSE IF coords.kind = "Interleaved"
    THEN FoldChunks(coords.coords, coords.dim, 1,
                    <<<<INFINITY, INFINITY>>, <<NEG_INFINITY, NEG_INFINITY>>>>)
    ELSE LET xraw == coords.buffers[1]
             yraw == coords.buffers[2]
             xcoords == IF empty_point_check THEN FilterNotNan(xraw) ELSE xraw
             ycoords == IF empty_point_check THEN FilterNotNan(yraw) ELSE yraw
         IN <<<<unwrap_or(ArrowMin(xcoords), F64_MAX), unwrap_or(ArrowMin(ycoords), F64_MAX)>>,
              <<unwrap_or(ArrowMax(xcoords), F64_MIN), unwrap_or(ArrowMax(ycoords), F64_MIN)>>>>

----------------------------------------------------------------------------
(* Arrow arrays handed to the ST_Extent accumulator *)

\* GeoParquetGeometryType::from_str / to_string: the strings and the variants
GeoParquetGeometryTypes ==
    { [str |-> "Point", variant |-> "Point", dim |-> 2],
      [str |-> "LineString", variant |-> "LineString", dim |-> 2],
      [str |-> "Polygon", variant |-> "Polygon", dim |-> 2],
      [str |-> "MultiPoint", variant |-> "MultiPoint", dim |-> 2],
      [str |-> "MultiLineString", variant |-> "MultiLineString", dim |-> 2],
      [str |-> "MultiPolygon", variant |-> "MultiPolygon", dim |-> 2],
      [str |-> "GeometryCollection", variant |-> "GeometryCollection", dim |-> 2],
      [str |-> "Point Z", variant |-> "Point", dim |-> 3],
      [str |-> "LineString Z", variant |-> "LineString", dim |-> 3],
      [str |-> "Polygon Z", variant |-> "Polygon", dim |-> 3],
      [str |-> "MultiPoint Z", variant |-> "MultiPoint", dim |-> 3],
      [str |-> "MultiLineString Z", variant |-> "MultiLineString", dim |-> 3],
      [str |-> "MultiPolygon Z", variant |-> "MultiPolygon", dim |-> 3],
      [str |-> "GeometryCollection Z", variant |-> "GeometryCollection", dim |-> 3] }

\* GeoParquetGeometryType::from_str: Err for a string that names no variant
from_str(s) ==
    IF \E g \in GeoParquetGeometryTypes : g.str = s
    THEN [ok |-> TRUE, ty |-> CHOOSE g \in GeoParquetGeometryTypes : g.str = s]
    ELSE [ok |-> FALSE, ty |-> [str |-> s, variant |-> "", dim |-> 0]]

GeomTypeStr(variant, dim) ==
    (CHOOSE g \in GeoParquetGeometryTypes : g.variant = variant /\ g.dim = dim).str

\* depth of list nesting of the Arrow data type of a native layout
Nesting(variant) ==
    CASE variant = "Point" -> 0
      [] variant \in {"LineString", "MultiPoint"} -> 1
      [] variant \in {"Polygon", "MultiLineString"} -> 2
      [] variant = "MultiPolygon" -> 3
      [] OTHER -> 4

\* coord_type: the layout is read off the Arrow data type of the column
coord_type(arr) ==
    IF arr.data_type = "Native" /\ Nesting(arr.variant) <= 3
    THEN Some(arr.coords.kind) ELSE None

\* native_type: variant and dimension from the tag, layout from the column
native_type(arr, geometry_type) ==
    [variant |-> geometry_type.variant,
     ct |-> unwrap_or(coord_type(arr), "Separated"),
     dim |-> geometry_type.dim]

\* NativeArrayDyn::from_arrow_array succeeds when the column has the Arrow
\* data type of the declared native type
from_arrow_array_ok(arr, nt) ==
    /\ arr.data_type = "Native"
    /\ Nesting(arr.variant) = Nesting(nt.variant)
    /\ arr.dim = nt.dim
    /\ arr.coords.kind = nt.ct

----------------------------------------------------------------------------
(* ExtentAccumulator *)

new == [xmin |-> F64_MAX, ymin |-> F64_MAX, xmax |-> F64_MIN, ymax |-> F64_MIN]

\* partial state, in the order the four scalars are pushed
state(self) == <<self.xmin, self.xmax, self.ymin, self.ymax>>

\* the struct fields filled in the order of state()
evaluate_in_state_order(self) ==
    << <<"xmin", self.xmin>>, <<"ymin", self.xmax>>,
       <<"xmax", self.ymin>>, <<"ymax", self.ymax>> >>

\* the struct returned to the query: field names and values, in order
evaluate(self) ==
    << <<"xmin", self.xmin>>, <<"ymin", self.ymin>>,
       <<"xmax", self.xmax>>, <<"ymax", self.ymax>> >>

Ok == [status |-> "Ok", value |-> <<>>]
ErrInternal == [status |-> "Err(Internal)", value |-> <<>>]
Panic == [status |-> "panic", value |-> <<>>]

\* the four assignments that close update_batch
fold_extent(self, mm) ==
    [xmin |-> f64_min(self.xmin, mm[1][1]),
     ymin |-> f64_min(self.ymin, mm[1][2]),
     xmax |-> f64_max(self.xmax, mm[2][1]),
     ymax |-> f64_max(self.ymax, mm[2][2])]

\* values = <<geometry column, geometry-type column, encoding column>>
\* (values[0], values[1], values[2] of the source)
\* update_batch up to its four closing assignments: how the call ends and
\* the ((xmin, ymin), (xmax, ymax)) it computed from the batch
batch_extent(values) ==
    IF Len(values) # 3 THEN [ret |-> Panic, mm |-> <<>>]
    ELSE IF values[1].data_type \in {"Binary", "LargeBinary"}
    THEN [ret |-> Panic, mm |-> <<>>]
    ELSE IF Len(values[2]) = 0 THEN [ret |-> Panic, mm |-> <<>>]
    ELSE LET geomtype == from_str(values[2][1])
         IN IF ~geomtype.ok THEN [ret |-> ErrInternal, mm |-> <<>>]
            ELSE LET nt == native_type(values[1], geomtype.ty)
                 IN IF ~from_arrow_array_ok(values[1], nt)
                    THEN [ret |-> Panic, mm |-> <<>>]
                    ELSE IF nt.variant \notin {"Point", "LineString", "Polygon",
                                 "MultiPoint", "MultiLineString", "MultiPolygon"}
                    THEN [ret |-> Panic, mm |-> <<>>]
                    ELSE [ret |-> Ok,
                          mm |-> min_max_2d(values[1].coords, nt.variant = "Point")]

\* the end of update_batch: the bounds are assigned when nothing failed
fold_batch(self, e) ==
    IF e.ret = Ok THEN [acc |-> fold_extent(self, e.mm), ret |-> Ok]
    ELSE [acc |-> self, ret |-> e.ret]

update_batch(self, values) == fold_batch(self, batch_extent(values))

\* the four assignments of merge_batch, given the minimum of each state column
merge_fold(self, m) ==
    [xmin |-> f64_min(self.xmin, m[1]),
     ymin |-> f64_min(self.ymin, m[2]),
     xmax |-> f64_min(self.xmax, m[3]),
     ymax |-> f64_min(self.ymax, m[4])]

\* states = the four partial-state columns (states[0..3] of the source)
\* min(column) of the four state columns
state_minima(states) == [k \in 1..4 |-> ArrowMin(states[k])]

\* the four `.unwrap()` and assignments of merge_batch
merge_minima(self, m) ==
    IF \E k \in 1..4 : m[k] = None
    THEN [acc |-> self, ret |-> Panic]
    ELSE [acc |-> merge_fold(self, [k \in 1..4 |-> m[k][1]]), ret |-> Ok]

merge_batch(self, states) == merge_minima(self, state_minima(states))

\* the engine turns the state() vectors of n accumulators into four columns of n rows
StateArrays(rows) == [k \in 1..4 |-> [i \in 1..Len(rows) |-> rows[i][k]]]

----------------------------------------------------------------------------
(* Inputs of the accumulator *)

\* the finite coordinates of a batch are the two ends of 0..MaxVal
CoordVals == {0, MaxVal, NAN}
ZVals == {9, NAN}
Layouts == {"Interleaved", "Separated"}

\* one coordinate of dimension D: <<x, y>> or <<x, y, z>>
CoordTuples(D) ==
    IF D = 2 THEN {<<x, y>> : x \in CoordVals, y \in CoordVals}
    ELSE {<<x, y, z>> : x \in CoordVals, y \in CoordVals, z \in ZVals}

SeqsUpTo(S, n) == UNION {[1..k -> S] : k \in 0..n}

Layout(kind, D, cs) == IF kind = "Interleaved" THEN Interleaved(D, cs) ELSE Separated(D, cs)

NativeVariants ==
    {"Point", "LineString", "Polygon", "MultiPoint", "MultiLineString", "MultiPolygon"}

\* GeoParquetColumnEncoding::to_string
EncodingStr(variant) ==
    CASE variant = "Point" -> "point"
      [] variant = "LineString" -> "linestring"
      [] variant = "Polygon" -> "polygon"
      [] variant = "MultiPoint" -> "multipoint"
      [] variant = "MultiLineString" -> "multilinestring"
      [] variant = "MultiPolygon" -> "multipolygon"
      [] OTHER -> "WKB"

\* a native geometry array: its coordinate buffer, its number of rows and its
\* validity bitmap
NativeArray(variant, kind, D, cs, len, validity) ==
    [data_type |-> "Native", variant |-> variant, dim |-> D,
     coords |-> Layout(kind, D, cs), len |-> len, validity |-> validity]

\* a WKB column (Binary or LargeBinary) of len rows
WKBArray(data_type, len) ==
    [data_type |-> data_type, variant |-> "", dim |-> 2,
     coords |-> Interleaved(2, <<>>), len |-> len, validity |-> [i \in 1..len |-> TRUE]]

\* a Point array has one coordinate slot per row, null rows included; the
\* slot of a null row holds whatever the producer of the array left there
PointArrays ==
    UNION { UNION { { NativeArray("Point", kind, D, cs, Len(cs), v) :
                          v \in [1..Len(cs) -> BOOLEAN], kind \in Layouts } :
                    cs \in SeqsUpTo(CoordTuples(D), MaxCoords) } :
            D \in {2, 3} }

\* the other variants reach their coordinates through offsets; a row may
\* have no coordinate at all
OtherArrays ==
    UNION { UNION { { NativeArray(variant, kind, D, cs, len, [i \in 1..len |-> TRUE]) :
                          variant \in NativeVariants \ {"Point"}, kind \in Layouts,
                          len \in (IF Len(cs) = 0 THEN {0, 1} ELSE {1}) } :
                    cs \in SeqsUpTo(CoordTuples(D), MaxCoords) } :
            D \in {2, 3} }

\* the three argument columns of one batch: the literals the analyzer
\* appended are expanded to the length of the batch
Values(arr, typestr, encstr) ==
    << arr, [i \in 1..arr.len |-> typestr], [i \in 1..arr.len |-> encstr] >>

TaggedValues(arr) ==
    Values(arr, GeomTypeStr(arr.variant, arr.dim), EncodingStr(arr.variant))

\* scenario S2 of the specification: [(0,0), (NaN,NaN), (10,-5)]
S2Coords == << <<0, 0>>, <<NAN, NAN>>, <<10, 0 - 5>> >>
S2Values(kind) ==
    TaggedValues(NativeArray("Point", kind, 2, S2Coords, 3, <<TRUE, TRUE, TRUE>>))

PointBatches == {TaggedValues(a) : a \in PointArrays} \cup {S2Values(k) : k \in Layouts}
NativeBatches == PointBatches \cup {TaggedValues(a) : a \in OtherArrays}

\* batches whose tags do not name the native layout of the column
OtherBatches ==
    LET p2 == NativeArray("Point", "Separated", 2, << <<0, 1>> >>, 1, <<TRUE>>)
    IN { Values(WKBArray("Binary", 1), "Point", "WKB"),
         Values(WKBArray("LargeBinary", 1), "Point", "WKB"),
         Values(p2, "Mixed", "point"),
         Values(p2, "Unknown", "point"),
         Values(p2, "GeometryCollection", "point"),
         Values(p2, "Point Z", "point"),
         Values(p2, "LineString", "point"),
         <<p2>> }

Batches == NativeBatches \cup OtherBatches

\* the state() rows that accumulators of the partial stage emit after one batch
StateRows == {state(update_batch(new, values).acc) : values \in NativeBatches}

\* what a call was handed: a native batch with its tags or not, the rows
\* of the columns, the coordinates of the coordinate buffer
NoInput == [native |-> FALSE, rows |-> 0, coords |-> 0]
BatchSize(values) ==
    [native |-> Len(values) = 3 /\ values[1].data_type = "Native"
                   /\ values = TaggedValues(values[1]),
     rows |-> values[1].len,
     coords |-> CoordBufferLen(values[1].coords)]

\* the batches, told apart by what update_batch computes from them before
\* it assigns the bounds, and by their size
BatchOutcomes ==
    {[extent |-> batch_extent(values), size |-> BatchSize(values)] : values \in Batches}

\* the state arrays, told apart by the minima merge_batch takes of them, and
\* by their number of rows
MergeOutcomes ==
    {[minima |-> state_minima(StateArrays(rows)),
      size |-> [native |-> FALSE, rows |-> Len(rows), coords |-> 0]] :
        rows \in SeqsUpTo(StateRows, MaxRows)}

----------------------------------------------------------------------------
(* SpecExtent: one ExtentAccumulator under any sequence of calls *)

Alive == ret.status # "panic"

UpdateBatch ==
    /\ Alive
    /\ \E batch \in BatchOutcomes :
          LET r == fold_batch(acc, batch.extent)
          IN /\ acc' = r.acc
             /\ ret' = r.ret
             /\ given' = batch.size
    /\ op' = "update_batch"
    /\ UNCHANGED <<partVars, anVars, kernVars>>

MergeBatch ==
    /\ Alive
    /\ \E states \in MergeOutcomes :
          LET r == merge_minima(acc, states.minima)
          IN /\ acc' = r.acc
             /\ ret' = r.ret
             /\ given' = states.size
    /\ op' = "merge_batch"
    /\ UNCHANGED <<partVars, anVars, kernVars>>

State ==
    /\ Alive
    /\ ret' = [status |-> "Ok", value |-> state(acc)]
    /\ op' = "state"
    /\ given' = NoInput
    /\ UNCHANGED <<acc, partVars, anVars, kernVars>>

Evaluate ==
    /\ Alive
    /\ ret' = [status |-> "Ok", value |-> evaluate(acc)]
    /\ op' = "evaluate"
    /\ given' = NoInput
    /\ UNCHANGED <<acc, partVars, anVars, kernVars>>

\* no plan is being analyzed
AnalyzerIdle ==
    /\ plan = <<>>
    /\ input = <<>>
    /\ geometa = {}
    /\ pos = 1
    /\ tnr = "Continue"
    /\ pass = 0
    /\ status = "idle"

\* no kernel is under call
KernelIdle ==
    /\ invocation = [kernel |-> "none", args |-> <<>>]
    /\ result = [status |-> "idle", value |-> <<>>]

PartIdle ==
    /\ single = new
    /\ parts = [p \in 1..NumPart |-> new]
    /\ final = new
    /\ prevFinal = new
    /\ srcs = <<>>
    /\ merged = {}
    /\ fed = 0
    /\ phase = "update"

ExtentIdle ==
    /\ acc = new
    /\ op = "new"
    /\ ret = Ok
    /\ given = NoInput

InitExtent == ExtentIdle /\ PartIdle /\ AnalyzerIdle /\ KernelIdle

NextExtent == UpdateBatch \/ MergeBatch \/ State \/ Evaluate

SpecExtent == InitExtent /\ [][NextExtent]_vars

----------------------------------------------------------------------------
(* SpecPartition: the two-phase aggregation.  Every batch goes to the      *)
(* accumulator of one partition and, for comparison, to one accumulator    *)
(* that sees all batches; the partial states are then merged into `final`. *)

Partitions == 1..NumPart

\* sequences of distinct partitions that have not been merged yet
MergeOrders ==
    {ss \in SeqsUpTo(Partitions, NumPart) :
        /\ \A i \in 1..Len(ss) : ss[i] \notin merged
        /\ \A i, j \in 1..Len(ss) : i # j => ss[i] # ss[j]}

FeedBatch ==
    /\ phase = "update"
    /\ fed < MaxBatches
    /\ \E values \in Batches, p \in Partitions :
          LET rs == update_batch(single, values)
              rp == update_batch(parts[p], values)
          IN /\ single' = rs.acc
             /\ parts' = [parts EXCEPT ![p] = rp.acc]
             /\ phase' = IF rp.ret = Ok THEN "update" ELSE "failed"
    /\ fed' = fed + 1
    /\ UNCHANGED <<final, prevFinal, srcs, merged, extentVars, anVars, kernVars>>

MergePartials ==
    /\ phase \in {"update", "merge"}
    /\ merged # Partitions
    /\ \E ss \in MergeOrders :
          LET r == merge_batch(final, StateArrays([i \in 1..Len(ss) |-> state(parts[ss[i]])]))
          IN /\ final' = r.acc
             /\ phase' = IF r.ret = Ok THEN "merge" ELSE "failed"
             /\ srcs' = ss
             /\ merged' = merged \cup SeqRange(ss)
    /\ prevFinal' = final
    /\ UNCHANGED <<single, parts, fed, extentVars, anVars, kernVars>>

Finish ==
    /\ phase = "merge"
    /\ merged = Partitions
    /\ phase' = "done"
    /\ UNCHANGED <<single, parts, final, prevFinal, srcs, merged, fed, extentVars, anVars, kernVars>>

InitPartition == ExtentIdle /\ PartIdle /\ AnalyzerIdle /\ KernelIdle

NextPartition == FeedBatch \/ MergePartials \/ Finish

SpecPartition == InitPartition /\ [][NextPartition]_vars

----------------------------------------------------------------------------
(* Expressions and plans of the analyzer *)

\* TableReference: Bare (schema = "") or Partial (schema.table); None for an
\* unqualified column
NoRel == [some |-> FALSE, schema |-> "", table |-> ""]
TableRef(schema, table) == [some |-> TRUE, schema |-> schema, table |-> table]

\* Expr: kind is the enum variant; name is the column, function, alias name
\* or the literal's text; ty is the ScalarValue variant of a literal
Column(relation, name) ==
    [kind |-> "Column", name |-> name, rel |-> relation, ty |-> "", args |-> <<>>]
ScalarFunction(func, args) ==
    [kind |-> "ScalarFunction", name |-> func, rel |-> NoRel, ty |-> "", args |-> args]
AggregateFunction(func, args) ==
    [kind |-> "AggregateFunction", name |-> func, rel |-> NoRel, ty |-> "", args |-> args]
Alias(expr, name) ==
    [kind |-> "Alias", name |-> name, rel |-> NoRel, ty |-> "", args |-> <<expr>>]
Cast(expr) ==
    [kind |-> "Cast", name |-> "", rel |-> NoRel, ty |-> "", args |-> <<expr>>]

\* lit(s): Expr::Literal(ScalarValue::Utf8(Some(s)))
lit(s) == [kind |-> "Literal", name |-> s, rel |-> NoRel, ty |-> "Utf8", args |-> <<>>]

\* Expr::default(): Expr::Literal(ScalarValue::Null)
ExprDefault == [kind |-> "Literal", name |-> "", rel |-> NoRel, ty |-> "Null", args |-> <<>>]

\* func.name().starts_with("ST_")
starts_with_ST(name) ==
    \E base \in {"AsText", "Envelope", "Extent", "GeometryType", "Buffer"} :
        name = "ST_" \o base

RECURSIVE JoinNames(_, _)
JoinNames(names, sep) ==
    IF Len(names) = 0 THEN ""
    ELSE IF Len(names) = 1 THEN names[1]
    ELSE names[1] \o sep \o JoinNames(Tail(names), sep)

\* Expr::name_for_alias: the schema name of the expression
RECURSIVE name_for_alias(_)
name_for_alias(e) ==
    CASE e.kind = "Column" ->
            IF ~e.rel.some THEN e.name
            ELSE IF e.rel.schema = "" THEN e.rel.table \o "." \o e.name
            ELSE e.rel.schema \o "." \o e.rel.table \o "." \o e.name
      [] e.kind = "Literal" ->
            IF e.ty = "Null" THEN "NULL" ELSE "Utf8(\"" \o e.name \o "\")"
      [] e.kind = "Alias" -> e.name
      [] e.kind = "Cast" -> name_for_alias(e.args[1])
      [] OTHER ->
            e.name \o "(" \o
                JoinNames([i \in 1..Len(e.args) |-> name_for_alias(e.args[i])], ",") \o ")"

\* HashMap<String, GeoParquetMetadata> as a set of entries
contains_key(map, key) == \E entry \in map : entry.key = key
get(map, key) == (CHOOSE entry \in map : entry.key = key).value

\* an insert that leaves the map as it was
insert_dropped(map, key, value) == map

\* HashMap::insert: the entry of the key is replaced
insert(map, key, value) ==
    {entry \in map : entry.key # key} \cup {[key |-> key, value |-> value]}

\* GeoParquetMetadata.columns as a set of column entries
has_column(meta, name) == \E column \in meta.columns : column.name = name
get_column(meta, name) == CHOOSE column \in meta.columns : column.name = name

\* geometry_type_lit without the `2.. => lit("Mixed")` arm
geometry_type_lit_first_variant(column) ==
    IF Cardinality(column.geometry_types) = 0 THEN lit("Unknown")
    ELSE lit(CHOOSE t \in column.geometry_types : TRUE)

\* the geometry-type literal of a column entry
geometry_type_lit(column) ==
    IF Cardinality(column.geometry_types) = 0 THEN lit("Unknown")
    ELSE IF Cardinality(column.geometry_types) = 1
    THEN lit(CHOOSE t \in column.geometry_types : TRUE)
    ELSE lit("Mixed")

\* the two literals derived from a column entry
column_additions(column) == <<geometry_type_lit(column), lit(column.encoding)>>

\* the two literals for an argument that is a spatial scalar call
producer_additions(func) ==
    IF func = "ST_Envelope"
    THEN [output |-> <<lit("Polygon"), lit("polygon")>>, panic |-> FALSE]
    ELSE [output |-> <<ExprDefault, ExprDefault>>, panic |-> TRUE]

\* the closure of apply_children over the children from index i on; output
\* is still Default::default() when no child stopped the walk
RECURSIVE infer_children(_, _, _)
infer_children(children, i, map) ==
    IF i > Len(children)
    THEN [output |-> <<ExprDefault, ExprDefault>>, panic |-> FALSE]
    ELSE LET child == children[i]
         IN CASE child.kind = "Column" ->
                    IF /\ child.rel.some
                       /\ contains_key(map, child.rel.table)
                       /\ has_column(get(map, child.rel.table), child.name)
                    THEN [output |-> column_additions(
                                         get_column(get(map, child.rel.table), child.name)),
                          panic |-> FALSE]
                    ELSE infer_children(children, i + 1, map)
              [] child.kind = "ScalarFunction" ->
                    IF starts_with_ST(child.name) THEN producer_additions(child.name)
                    ELSE [output |-> <<ExprDefault, ExprDefault>>, panic |-> FALSE]
              [] OTHER -> infer_children(children, i + 1, map)

infer_encoding_and_type(expr, map) == infer_children(expr.args, 1, map)

\* rewrite_call with the alias taken from the call after the literals were
\* appended
rewrite_call_named_after(expr, map) ==
    IF expr.kind \in {"ScalarFunction", "AggregateFunction"} /\ starts_with_ST(expr.name)
    THEN LET additions == infer_encoding_and_type(expr, map)
             call == [expr EXCEPT !.args = expr.args \o additions.output]
         IN [expr |-> Alias(call, name_for_alias(call)), panic |-> additions.panic]
    ELSE [expr |-> expr, panic |-> FALSE]

\* the closure given to expr.transform_up, applied to a node whose children
\* have been transformed already
rewrite_call(expr, map) ==
    IF expr.kind \in {"ScalarFunction", "AggregateFunction"} /\ starts_with_ST(expr.name)
    THEN LET name == name_for_alias(expr)
             additions == infer_encoding_and_type(expr, map)
         IN [expr |-> Alias([expr EXCEPT !.args = expr.args \o additions.output], name),
             panic |-> additions.panic]
    ELSE [expr |-> expr, panic |-> FALSE]

\* expr.transform_up: children first, then the node itself
RECURSIVE transform_up_expr(_, _)
transform_up_expr(expr, map) ==
    LET kids == [i \in 1..Len(expr.args) |-> transform_up_expr(expr.args[i], map)]
        node == rewrite_call([expr EXCEPT !.args = [i \in 1..Len(kids) |-> kids[i].expr]], map)
    IN [expr |-> node.expr,
        panic |-> node.panic \/ \E i \in 1..Len(kids) : kids[i].panic]

\* the TreeNodeRecursion of the value the plan closure returns:
\* Transformed::no(transformed.data) is always Continue
closure_tnr(inner) == "Continue"

----------------------------------------------------------------------------
(* Logical plans *)

\* projected_schema.metadata().get("geo"): absent, present but not valid
\* GeoParquet JSON, or present with the listed columns
NoGeo == [present |-> FALSE, parseable |-> FALSE, columns |-> {}]
MalformedGeo == [present |-> TRUE, parseable |-> FALSE, columns |-> {}]
Geo(columns) == [present |-> TRUE, parseable |-> TRUE, columns |-> columns]

\* one column entry of GeoParquetMetadata.columns
GeoParquetColumnMetadata(name, encoding, geometry_types) ==
    [name |-> name, encoding |-> encoding, geometry_types |-> geometry_types]

\* LogicalPlan nodes; a plan is the sequence of its nodes in post-order, the
\* order in which transform_up hands them to the closure
TableScan(table_name, geo) ==
    [kind |-> "TableScan", table_name |-> table_name, alias |-> "", geo |-> geo,
     exprs |-> <<>>, inputs |-> 0]
SubqueryAlias(alias) ==
    [kind |-> "SubqueryAlias", table_name |-> NoRel, alias |-> alias, geo |-> NoGeo,
     exprs |-> <<>>, inputs |-> 1]
Join ==
    [kind |-> "Join", table_name |-> NoRel, alias |-> "", geo |-> NoGeo,
     exprs |-> <<>>, inputs |-> 2]
Projection(exprs) ==
    [kind |-> "Projection", table_name |-> NoRel, alias |-> "", geo |-> NoGeo,
     exprs |-> exprs, inputs |-> 1]
Aggregate(exprs) ==
    [kind |-> "Aggregate", table_name |-> NoRel, alias |-> "", geo |-> NoGeo,
     exprs |-> exprs, inputs |-> 1]

\* serde_json::from_str(metadata) of a parseable `geo` value
from_json(geo) == [columns |-> geo.columns]

\* the TableScan arm without the contains_key test: every scan parses its
\* metadata and inserts it
visit_table_scan_unguarded(node, map) ==
    IF node.geo.present
    THEN IF node.geo.parseable
         THEN [geometa |-> insert(map, node.table_name.table, from_json(node.geo)),
               err |-> FALSE, tnr |-> "Continue"]
         ELSE [geometa |-> map, err |-> TRUE, tnr |-> "Continue"]
    ELSE [geometa |-> map, err |-> FALSE, tnr |-> "Jump"]

\* the TableScan arm of the plan closure
visit_table_scan(node, map) ==
    IF node.geo.present
    THEN IF ~contains_key(map, node.table_name.table)
         THEN IF node.geo.parseable
              THEN [geometa |-> insert(map, node.table_name.table, from_json(node.geo)),
                    err |-> FALSE, tnr |-> "Continue"]
              ELSE [geometa |-> map, err |-> TRUE, tnr |-> "Continue"]
         ELSE [geometa |-> map, err |-> FALSE, tnr |-> "Continue"]
    ELSE [geometa |-> map, err |-> FALSE, tnr |-> "Jump"]

\* data.map_expressions over the expressions of any other node
map_expressions(node, map) ==
    LET results == [i \in 1..Len(node.exprs) |-> transform_up_expr(node.exprs[i], map)]
    IN [node |-> [node EXCEPT !.exprs = [i \in 1..Len(results) |-> results[i].expr]],
        panic |-> \E i \in 1..Len(results) : results[i].panic]

----------------------------------------------------------------------------
(* Inputs of the analyzer *)

GeometryTypeNames == {"Point", "LineString", "Polygon"}
Encodings == {"WKB", "point"}

GeometryTypeSets == {ts \in SUBSET GeometryTypeNames : Cardinality(ts) <= MaxTypes}

\* geo metadata that lists the column `geometry`
Metas ==
    {Geo({GeoParquetColumnMetadata("geometry", enc, ts)}) :
        enc \in Encodings, ts \in GeometryTypeSets}

\* expressions of a SELECT list over the table known by the qualifier q
SelectExprs(q) ==
    LET geometry == Column(q, "geometry")
    IN { ScalarFunction("ST_AsText", <<geometry>>),
         ScalarFunction("ST_Envelope", <<geometry>>),
         ScalarFunction("ST_AsText", <<ScalarFunction("ST_Envelope", <<geometry>>)>>),
         ScalarFunction("ST_AsText", <<ScalarFunction("ST_Buffer", <<geometry>>)>>),
         ScalarFunction("ST_AsText", <<ScalarFunction("upper", <<geometry>>)>>),
         ScalarFunction("ST_AsText", <<Cast(geometry)>>),
         ScalarFunction("ST_AsText", <<Column(q, "name")>>),
         ScalarFunction("upper", <<Column(q, "name")>>),
         Alias(ScalarFunction("ST_GeometryType", <<geometry>>), "geom_type"),
         geometry }

\* aggregate expressions over the table known by the qualifier q
AggregateExprs(q) ==
    { AggregateFunction("ST_Extent", <<Column(q, "geometry")>>),
      AggregateFunction("ST_Extent", <<ScalarFunction("ST_Envelope", <<Column(q, "geometry")>>)>>),
      AggregateFunction("count", <<Column(q, "geometry")>>) }

\* the node that evaluates one expression over the table known by q
TopNodes(q) ==
    {Projection(<<e>>) : e \in SelectExprs(q)} \cup {Aggregate(<<e>>) : e \in AggregateExprs(q)}

tbl == TableRef("", "tbl")
plain == TableRef("", "plain")
other_tbl == TableRef("s2", "tbl")

\* SELECT e FROM tbl
DirectPlans == {<<TableScan(tbl, geo), top>> : geo \in Metas, top \in TopNodes(tbl)}

\* SELECT e FROM tbl AS t
AliasPlans ==
    {<<TableScan(tbl, geo), SubqueryAlias("t"), top>> :
        geo \in Metas, top \in TopNodes(TableRef("", "t"))}

\* SELECT e FROM plain, a table without geo metadata
PlainPlans == {<<TableScan(plain, NoGeo), top>> : top \in TopNodes(plain)}

\* SELECT e FROM tbl, whose geo metadata is not valid JSON
MalformedPlans == {<<TableScan(tbl, MalformedGeo), top>> : top \in TopNodes(tbl)}

\* SELECT e FROM a JOIN b, e over one of the two tables
JoinPlans ==
    LET polygons == Geo({GeoParquetColumnMetadata("geometry", "WKB", {"Polygon"})})
        points == Geo({GeoParquetColumnMetadata("geometry", "point", {"Point"})})
    IN {<<TableScan(tbl, polygons), TableScan(other_tbl, points), Join, top>> :
            top \in TopNodes(tbl) \cup TopNodes(other_tbl)}
       \cup {<<TableScan(tbl, polygons), TableScan(plain, NoGeo), Join, top>> :
            top \in TopNodes(tbl) \cup TopNodes(plain)}
       \cup {<<TableScan(plain, NoGeo), TableScan(tbl, polygons), Join, top>> :
            top \in TopNodes(tbl) \cup TopNodes(plain)}
       \cup {<<TableScan(tbl, polygons), TableScan(other_tbl, MalformedGeo), Join, top>> :
            top \in TopNodes(tbl) \cup TopNodes(other_tbl)}

Plans == DirectPlans \cup AliasPlans \cup PlainPlans \cup MalformedPlans \cup JoinPlans

----------------------------------------------------------------------------
(* SpecAnalyzer: SpatialAnalyzerRule::analyze over one plan, node by node   *)
(* in the order of transform_up, and again over the plan it returned.       *)

Running == status = "running" /\ pos <= Len(plan)

\* the closure on a TableScan (leaves are always handed to the closure)
VisitTableScan ==
    /\ Running
    /\ plan[pos].kind = "TableScan"
    /\ LET r == visit_table_scan(plan[pos], geometa)
       IN /\ geometa' = r.geometa
          /\ status' = IF r.err THEN "err" ELSE "running"
          /\ tnr' = IF r.err THEN tnr ELSE closure_tnr(r.tnr)
          /\ pos' = IF r.err THEN pos ELSE pos + 1
    /\ UNCHANGED <<plan, input, pass, extentVars, partVars, kernVars>>

\* the closure on any other node; transform_up skips the closure on a parent
\* whose last child left Jump
VisitOther ==
    /\ Running
    /\ plan[pos].kind # "TableScan"
    /\ IF tnr = "Jump"
       THEN /\ tnr' = "Continue"
            /\ UNCHANGED <<plan, status>>
       ELSE LET r == map_expressions(plan[pos], geometa)
            IN /\ plan' = [plan EXCEPT ![pos] = r.node]
               /\ status' = IF r.panic THEN "panic" ELSE "running"
               /\ tnr' = closure_tnr("Continue")
    /\ pos' = pos + 1
    /\ UNCHANGED <<input, geometa, pass, extentVars, partVars, kernVars>>

\* Ok(plan.data)
Return ==
    /\ status = "running"
    /\ pos > Len(plan)
    /\ status' = "ok"
    /\ UNCHANGED <<plan, input, geometa, pos, tnr, pass, extentVars, partVars, kernVars>>

\* analyze is called on the plan a previous call returned
Reanalyze ==
    /\ status = "ok"
    /\ pass < MaxPasses
    /\ input' = plan
    /\ geometa' = {}
    /\ pos' = 1
    /\ tnr' = "Continue"
    /\ pass' = pass + 1
    /\ status' = "running"
    /\ UNCHANGED <<plan, extentVars, partVars, kernVars>>

InitAnalyzer ==
    /\ ExtentIdle
    /\ PartIdle
    /\ KernelIdle
    /\ plan \in Plans
    /\ input = plan
    /\ geometa = {}
    /\ pos = 1
    /\ tnr = "Continue"
    /\ pass = 1
    /\ status = "running"

NextAnalyzer == VisitTableScan \/ VisitOther \/ Return \/ Reanalyze

SpecAnalyzer == InitAnalyzer /\ [][NextAnalyzer]_vars

----------------------------------------------------------------------------
(* WKT writer (src/src/wkt/scalar.rs) *)

\* a geometry value as the geo_traits accessors show it: `parts` holds
\*   Point: no coordinate (empty point) or one; LineString: its coordinates;
\*   Polygon: its rings, exterior first; MultiPoint: its points;
\*   MultiLineString: its line strings; MultiPolygon: its polygons;
\*   GeometryCollection: its geometries; Rect: <<min, max>>
Geometry(type, dims, members) == [type |-> type, dims |-> dims, parts |-> members]

\* what the writes of a function add up to: the strings written, in order,
\* or the first failure
Written(s) == [status |-> "Ok", out |-> <<s>>]
WriteError == [status |-> "Err", out |-> <<>>]
Unwound == [status |-> "panic", out |-> <<>>]

\* fmt::Write of the sink: a String takes every write, a failing sink none
write_str(writer, s) == IF writer = "Failing" THEN WriteError ELSE Written(s)
write_char(writer, c) == write_str(writer, c)

\* statements joined by `?`: the first failure ends the function
RECURSIVE Chain(_)
Chain(steps) ==
    IF Len(steps) = 0 THEN [status |-> "Ok", out |-> <<>>]
    ELSE IF Head(steps).status # "Ok" THEN Head(steps)
    ELSE LET rest == Chain(Tail(steps))
         IN IF rest.status # "Ok" THEN rest
            ELSE [status |-> "Ok", out |-> Head(steps).out \o rest.out]

Digit(d) ==
    CASE d = 0 -> "0" [] d = 1 -> "1" [] d = 2 -> "2" [] d = 3 -> "3" [] d = 4 -> "4"
      [] d = 5 -> "5" [] d = 6 -> "6" [] d = 7 -> "7" [] d = 8 -> "8" [] d = 9 -> "9"

RECURSIVE Decimal(_)
Decimal(n) == IF n < 10 THEN Digit(n) ELSE Decimal(n \div 10) \o Digit(n % 10)

\* {:?} of an f64
fmt_debug(v) ==
    IF is_nan(v) THEN "NaN"
    ELSE IF v = INFINITY THEN "inf"
    ELSE IF v = NEG_INFINITY THEN "-inf"
    ELSE IF v < 0 THEN "-" \o Decimal(0 - v) \o ".0"
    ELSE Decimal(v) \o ".0"

\* add_dimension that treats Xyz as Xy
add_dimension_xyz_as_xy(writer, dims) ==
    CASE dims = "Xy" -> [n |-> 2, w |-> write_char(writer, " ")]
      [] dims = "Xyz" -> [n |-> 2, w |-> write_char(writer, " ")]
      [] dims = "Xym" -> [n |-> 3, w |-> write_str(writer, " M ")]
      [] dims = "Xyzm" -> [n |-> 4, w |-> write_str(writer, " ZM ")]

add_dimension(writer, dims) ==
    CASE dims = "Xy" -> [n |-> 2, w |-> write_char(writer, " ")]
      [] dims = "Xyz" -> [n |-> 3, w |-> write_str(writer, " Z ")]
      [] dims = "Xym" -> [n |-> 3, w |-> write_str(writer, " M ")]
      [] dims = "Xyzm" -> [n |-> 4, w |-> write_str(writer, " ZM ")]

add_coord(writer, coord, n) ==
    Chain(<<write_str(writer, fmt_debug(coord[1]))>>
          \o [nth \in 1..(n - 1) |-> write_str(writer, " " \o fmt_debug(coord[nth + 1]))])

\* point.coord().unwrap() panics on an empty point
add_point(writer, point, n) ==
    Chain(<< write_char(writer, "("),
             IF Len(point) = 0 THEN Unwound ELSE add_coord(writer, point[1], n),
             write_char(writer, ")") >>)

\* add_rest with ", " between two coordinates
RECURSIVE add_rest_spaced(_, _, _, _)
add_rest_spaced(writer, coords, i, n) ==
    IF i > Len(coords) THEN Chain(<<>>)
    ELSE Chain(<< write_str(writer, ", "),
                  add_coord(writer, coords[i], n),
                  add_rest_spaced(writer, coords, i + 1, n) >>)

RECURSIVE add_rest(_, _, _, _)
add_rest(writer, coords, i, n) ==
    IF i > Len(coords) THEN Chain(<<>>)
    ELSE Chain(<< write_char(writer, ","),
                  add_coord(writer, coords[i], n),
                  add_rest(writer, coords, i + 1, n) >>)

\* coords.next().unwrap() panics on an empty sequence of coordinates
add_coords(writer, coords, n) ==
    Chain(<< write_char(writer, "("),
             IF Len(coords) = 0 THEN Unwound
             ELSE Chain(<<add_coord(writer, coords[1], n), add_rest(writer, coords, 2, n)>>),
             write_char(writer, ")") >>)

point_to_wkt(point, writer) ==
    Chain(<< write_str(writer, "POINT"),
             IF Len(point.parts) > 0
             THEN LET d == add_dimension(writer, point.dims)
                  IN Chain(<<d.w, add_point(writer, point.parts, d.n)>>)
             ELSE write_str(writer, " EMPTY") >>)

linestring_to_wkt(linestring, writer) ==
    Chain(<< write_str(writer, "LINESTRING"),
             IF Len(linestring.parts) > 0
             THEN LET d == add_dimension(writer, linestring.dims)
                  IN Chain(<<d.w, add_coords(writer, linestring.parts, d.n)>>)
             ELSE write_str(writer, " EMPTY") >>)

\* `for interior in interiors { ',' add_coords }` from ring i on
RECURSIVE add_interiors(_, _, _, _)
add_interiors(writer, rings, i, n) ==
    IF i > Len(rings) THEN Chain(<<>>)
    ELSE Chain(<< write_char(writer, ","),
                  add_coords(writer, rings[i], n),
                  add_interiors(writer, rings, i + 1, n) >>)

polygon_to_wkt(polygon, writer) ==
    Chain(<< write_str(writer, "POLYGON"),
             IF Len(polygon.parts) > 0
             THEN IF Len(polygon.parts[1]) > 0
                  THEN LET d == add_dimension(writer, polygon.dims)
                       IN Chain(<< d.w,
                                   write_char(writer, "("),
                                   add_coords(writer, polygon.parts[1], d.n),
                                   add_interiors(writer, polygon.parts, 2, d.n),
                                   write_char(writer, ")") >>)
                  ELSE write_str(writer, " EMPTY")
             ELSE write_str(writer, " EMPTY") >>)

RECURSIVE add_points(_, _, _, _)
add_points(writer, points, i, n) ==
    IF i > Len(points) THEN Chain(<<>>)
    ELSE Chain(<< write_char(writer, ","),
                  add_point(writer, points[i], n),
                  add_points(writer, points, i + 1, n) >>)

multi_point_to_wkt(multi_point, writer) ==
    Chain(<< write_str(writer, "MULTIPOINT"),
             IF Len(multi_point.parts) > 0
             THEN LET d == add_dimension(writer, multi_point.dims)
                  IN Chain(<< d.w,
                              write_char(writer, "("),
                              add_point(writer, multi_point.parts[1], d.n),
                              add_points(writer, multi_point.parts, 2, d.n),
                              write_char(writer, ")") >>)
             ELSE write_str(writer, " EMPTY") >>)

multi_linestring_to_wkt(multi_linestring, writer) ==
    Chain(<< write_str(writer, "MULTILINESTRING"),
             IF Len(multi_linestring.parts) > 0
             THEN LET d == add_dimension(writer, multi_linestring.dims)
                  IN Chain(<< d.w,
                              write_char(writer, "("),
                              add_coords(writer, multi_linestring.parts[1], d.n),
                              add_interiors(writer, multi_linestring.parts, 2, d.n),
                              write_char(writer, ")") >>)
             ELSE write_str(writer, " EMPTY") >>)

\* the rings of one polygon of a MultiPolygon; polygon.exterior().unwrap()
\* panics on a polygon without rings
add_polygon_rings(writer, rings, n) ==
    IF Len(rings) = 0 THEN Unwound
    ELSE Chain(<<add_coords(writer, rings[1], n), add_interiors(writer, rings, 2, n)>>)

RECURSIVE add_polygons(_, _, _, _)
add_polygons(writer, polygons, i, n) ==
    IF i > Len(polygons) THEN Chain(<<>>)
    ELSE Chain(<< write_str(writer, "),("),
                  add_polygon_rings(writer, polygons[i], n),
                  add_polygons(writer, polygons, i + 1, n) >>)

multi_polygon_to_wkt(multi_polygon, writer) ==
    Chain(<< write_str(writer, "MULTIPOLYGON"),
             IF Len(multi_polygon.parts) > 0
             THEN LET d == add_dimension(writer, multi_polygon.dims)
                  IN Chain(<< d.w,
                              write_str(writer, "(("),
                              add_polygon_rings(writer, multi_polygon.parts[1], d.n),
                              add_polygons(writer, multi_polygon.parts, 2, d.n),
                              write_str(writer, "))") >>)
             ELSE write_str(writer, " EMPTY") >>)

rect_to_wkt(rect, writer) ==
    LET x0 == fmt_debug(rect.parts[1][1])
        y1 == fmt_debug(rect.parts[1][2])
        x2 == fmt_debug(rect.parts[2][1])
        y3 == fmt_debug(rect.parts[2][2])
    IN write_str(writer,
           "POLYGON (" \o x0 \o " " \o y1 \o "," \o x2 \o " " \o y1 \o "," \o x2 \o " " \o y3
               \o "," \o x0 \o " " \o y3 \o "," \o x0 \o " " \o y1 \o ")")

RECURSIVE geometry_to_wkt(_, _)
RECURSIVE add_geometries(_, _, _)
add_geometries(writer, geometries, i) ==
    IF i > Len(geometries) THEN Chain(<<>>)
    ELSE Chain(<< write_char(writer, ","),
                  geometry_to_wkt(geometries[i], writer),
                  add_geometries(writer, geometries, i + 1) >>)

geometry_collection_to_wkt(gc, writer) ==
    Chain(<< write_str(writer, "GEOMETRYCOLLECTION"),
             IF Len(gc.parts) > 0
             THEN Chain(<< add_dimension(writer, gc.dims).w,
                           write_char(writer, "("),
                           geometry_to_wkt(gc.parts[1], writer),
                           add_geometries(writer, gc.parts, 2),
                           write_char(writer, ")") >>)
             ELSE write_str(writer, " EMPTY") >>)

geometry_to_wkt(geometry, writer) ==
    CASE geometry.type = "Point" -> point_to_wkt(geometry, writer)
      [] geometry.type = "LineString" -> linestring_to_wkt(geometry, writer)
      [] geometry.type = "Polygon" -> polygon_to_wkt(geometry, writer)
      [] geometry.type = "MultiPoint" -> multi_point_to_wkt(geometry, writer)
      [] geometry.type = "MultiLineString" -> multi_linestring_to_wkt(geometry, writer)
      [] geometry.type = "MultiPolygon" -> multi_polygon_to_wkt(geometry, writer)
      [] geometry.type = "GeometryCollection" -> geometry_collection_to_wkt(geometry, writer)
      [] geometry.type = "Rect" -> rect_to_wkt(geometry, writer)
      [] geometry.type \in {"Triangle", "Line"} -> Unwound

\* the text a String sink holds after the writes
RECURSIVE Text(_)
Text(out) == IF Len(out) = 0 THEN "" ELSE Head(out) \o Text(Tail(out))

----------------------------------------------------------------------------
(* Scalar kernels over geometry arrays (src/src/udfs) *)

\* a ColumnarValue returned by a kernel: an array of rows or one scalar
ArrayValue(rows) == [columnar |-> "Array", rows |-> rows]
ScalarValue(v) == [columnar |-> "Scalar", rows |-> <<[valid |-> TRUE, value |-> v]>>]
Null == [valid |-> FALSE, value |-> <<>>]
Valid(v) == [valid |-> TRUE, value |-> v]

Returned(v) == [status |-> "Ok", out |-> v]
KernelErr == [status |-> "Err(Internal)", out |-> <<>>]
KernelPanic == [status |-> "panic", out |-> <<>>]

\* helpers::encoding, as as_text.rs imports it
encoding(s) ==
    IF s \in {"WKB", "point", "linestring", "polygon", "multipoint", "multilinestring",
              "multipolygon"}
    THEN [ok |-> TRUE, variant |-> CHOOSE v \in NativeVariants \cup {"WKB"} : EncodingStr(v) = s]
    ELSE [ok |-> FALSE, variant |-> ""]

\* ToWKT::to_wkt of an array: the writer is the string builder of the column
to_wkt(array) ==
    LET w(i) == geometry_to_wkt(array.items[i][1], "String")
    IN IF \E i \in 1..array.len : Len(array.items[i]) # 0 /\ w(i).status # "Ok"
       THEN KernelPanic
       ELSE Returned(ArrayValue([i \in 1..array.len |->
                IF Len(array.items[i]) = 0 THEN Null ELSE Valid(Text(w(i).out))]))

\* AsText::invoke; args[1], args[2], args[3] are args[0], args[1], args[2]
\* of the source
AsText_invoke(args) ==
    IF Len(args) # 3 THEN KernelPanic
    ELSE LET enc == encoding(args[2])
             geomtype == from_str(args[3])
         IN IF ~enc.ok \/ ~geomtype.ok THEN KernelErr
            ELSE IF enc.variant = "WKB"
            THEN IF args[1].data_type \in {"Binary", "LargeBinary"}
                 THEN to_wkt(args[1]) ELSE KernelErr
            ELSE IF geomtype.ty.variant # enc.variant THEN KernelPanic
            ELSE IF geomtype.ty.dim # 2 THEN KernelPanic
            ELSE IF ~from_arrow_array_ok(args[1],
                        [variant |-> enc.variant, ct |-> args[1].coords.kind, dim |-> 2])
            THEN KernelErr
            ELSE to_wkt(args[1])

\* str::replace(' ', "") on the strings of GeoParquetGeometryType
replace_space(s) ==
    IF \E g \in GeoParquetGeometryTypes : g.str = s /\ g.dim = 3
    THEN (CHOOSE g \in GeoParquetGeometryTypes : g.str = s).variant \o "Z"
    ELSE s

\* wkb_geom_to_type
wkb_geom_to_type(geom) ==
    IF Len(geom) = 0 THEN Null
    ELSE Valid("ST_" \o geom[1].type \o (IF geom[1].dims = "Xyz" THEN "Z" ELSE ""))

\* GeometryType::invoke
GeometryType_invoke(args) ==
    IF Len(args) # 3 THEN KernelPanic
    ELSE IF args[1].data_type \in {"Binary", "LargeBinary"}
    THEN Returned(ArrayValue([i \in 1..args[1].len |-> wkb_geom_to_type(args[1].items[i])]))
    ELSE LET geometry_type == "ST_" \o replace_space(args[2])
         IN IF \E i \in 1..args[1].len : ~args[1].validity[i]
            THEN Returned(ArrayValue([i \in 1..args[1].len |->
                     IF args[1].validity[i] THEN Valid(geometry_type) ELSE Null]))
            ELSE Returned(ScalarValue(geometry_type))

\* ColumnarValue::into_array(num_rows): a scalar is repeated for every row
into_array(v, num_rows) ==
    IF v.columnar = "Scalar" THEN [i \in 1..num_rows |-> v.rows[1]] ELSE v.rows

\* OffsetBuffer::from_lengths
RECURSIVE from_lengths(_)
from_lengths(lengths) ==
    IF Len(lengths) = 0 THEN <<0>>
    ELSE LET init == from_lengths(SubSeq(lengths, 1, Len(lengths) - 1))
         IN Append(init, init[Len(init)] + lengths[Len(lengths)])

\* OffsetBuffer::slice(offset, len) keeps the len + 1 offsets from `offset`
\* on and panics when they reach past the end of the buffer; <<>> stands for
\* the panic
slice_offsets(offsets, offset, len) ==
    IF offset + len + 1 > Len(offsets) THEN <<>>
    ELSE SubSeq(offsets, offset + 1, offset + len + 1)

\* CoordBuffer::slice(offset, length)
slice(coords, offset, length) ==
    IF coords.kind = "Interleaved"
    THEN [coords EXCEPT !.coords =
              SubSeq(coords.coords, offset * coords.dim + 1, (offset + length) * coords.dim)]
    ELSE [coords EXCEPT !.buffers =
              [a \in 1..coords.dim |-> SubSeq(coords.buffers[a], offset + 1, offset + length)]]

\* Option<CoordBuffer<D>> of the *_coord_buffer functions
NoBuffer == [status |-> "None", coords |-> Interleaved(2, <<>>)]
SomeBuffer(coords) == [status |-> "Some", coords |-> coords]
BufferPanic == [status |-> "panic", coords |-> Interleaved(2, <<>>)]

get_x(coords, index) ==
    IF coords.kind = "Interleaved" THEN coords.coords[index * coords.dim + 1]
    ELSE coords.buffers[1][index + 1]
get_y(coords, index) ==
    IF coords.kind = "Interleaved" THEN coords.coords[index * coords.dim + 2]
    ELSE coords.buffers[2][index + 1]

point_coord_buffer(array, index) ==
    IF array.validity[index + 1]
    THEN IF is_nan(get_x(array.coords, index)) /\ is_nan(get_y(array.coords, index))
         THEN SomeBuffer(slice(array.coords, index, 0))
         ELSE SomeBuffer(slice(array.coords, index, 1))
    ELSE NoBuffer

\* `offsets.slice(index, 2)`, then its entries 0 and 1
geom_start_end(offsets, index) ==
    LET o == slice_offsets(offsets, index, 2)
    IN IF Len(o) = 0 THEN <<>> ELSE <<o[1], o[2]>>

\* `offsets.slice(start, end - start)`, then its first and its last entry
inner_start_end(offsets, se) ==
    IF Len(se) = 0 THEN <<>>
    ELSE LET o == slice_offsets(offsets, se[1], se[2] - se[1])
         IN IF Len(o) = 0 THEN <<>> ELSE <<o[1], o[Len(o)]>>

\* `Some(array.coords().slice(start, end - start))`
coords_between(array, se) ==
    IF Len(se) = 0 THEN BufferPanic
    ELSE SomeBuffer(slice(array.coords, se[1], se[2] - se[1]))

\* also multi_point_coord_buffer, which has the same body
line_string_coord_buffer(array, index) ==
    IF array.validity[index + 1]
    THEN coords_between(array, geom_start_end(array.offsets[1], index))
    ELSE NoBuffer

\* also multi_line_string_coord_buffer, which has the same body
polygon_coord_buffer(array, index) ==
    IF array.validity[index + 1]
    THEN coords_between(array,
             inner_start_end(array.offsets[2], geom_start_end(array.offsets[1], index)))
    ELSE NoBuffer

multi_polygon_coord_buffer(array, index) ==
    IF array.validity[index + 1]
    THEN coords_between(array,
             inner_start_end(array.offsets[3],
                 inner_start_end(array.offsets[2], geom_start_end(array.offsets[1], index))))
    ELSE NoBuffer

\* the fold of envelope over chunks(D), starting at chunk i
RECURSIVE envelope_fold(_, _, _, _)
envelope_fold(flat, D, i, st) ==
    IF (i - 1) * D >= Len(flat) THEN st
    ELSE LET x == flat[(i - 1) * D + 1]
             y == flat[(i - 1) * D + 2]
             xmin == IF f64_lt(x, st[1][1]) THEN x ELSE st[1][1]
             xmax == IF ~f64_lt(x, st[1][1]) /\ f64_gt(x, st[2][1]) THEN x ELSE st[2][1]
             ymin == IF f64_lt(y, st[1][2]) THEN y ELSE st[1][2]
             ymax == IF ~f64_lt(y, st[1][2]) /\ f64_gt(y, st[2][2]) THEN y ELSE st[2][2]
         IN envelope_fold(flat, D, i + 1, <<<<xmin, ymin>>, <<xmax, ymax>>>>)

\* envelope(coords): the rings of the OwnedPolygon it returns
envelope(coords) ==
    IF CoordBufferLen(coords) = 0 THEN << <<>> >>
    ELSE LET mm == IF coords.kind = "Interleaved"
                   THEN envelope_fold(coords.coords, coords.dim, 1,
                            <<<<INFINITY, INFINITY>>, <<NEG_INFINITY, NEG_INFINITY>>>>)
                   ELSE <<<<ArrowMin(coords.buffers[1])[1], ArrowMin(coords.buffers[2])[1]>>,
                          <<ArrowMax(coords.buffers[1])[1], ArrowMax(coords.buffers[2])[1]>>>>
             xmin == mm[1][1]
             ymin == mm[1][2]
             xmax == mm[2][1]
             ymax == mm[2][2]
         IN << << <<xmin, ymin>>, <<xmax, ymin>>, <<xmax, ymax>>, <<xmin, ymax>>,
                  <<xmin, ymin>> >> >>

\* EnvelopeTrait::envelope of a native array: the *_coord_buffer function of
\* its type row by row, a null polygon for None
array_envelope(array) ==
    LET buf(index) ==
            CASE array.variant = "Point" -> point_coord_buffer(array, index)
              [] array.variant \in {"LineString", "MultiPoint"} ->
                    line_string_coord_buffer(array, index)
              [] array.variant \in {"Polygon", "MultiLineString"} ->
                    polygon_coord_buffer(array, index)
              [] array.variant = "MultiPolygon" -> multi_polygon_coord_buffer(array, index)
              [] OTHER -> BufferPanic
    IN IF Nesting(array.variant) > 3 THEN KernelPanic
       ELSE IF \E i \in 1..array.len : buf(i - 1).status = "panic" THEN KernelPanic
       ELSE Returned(ArrayValue([i \in 1..array.len |->
                IF buf(i - 1).status = "Some" THEN Valid(envelope(buf(i - 1).coords))
                ELSE Null]))

\* all coordinates of a geometry value, in order
RECURSIVE Leaves(_, _)
Leaves(nodes, depth) == IF depth = 0 THEN nodes ELSE Leaves(Flatten(nodes), depth - 1)

\* the coordinates of a geometry value; the empty point has none
Coordinates(g) ==
    IF g.type = "Point" THEN g.parts
    ELSE IF g.type = "MultiPoint" THEN Flatten(g.parts)
    ELSE IF g.type = "GeometryCollection"
    THEN Flatten([k \in 1..Len(g.parts) |-> g.parts[k].parts])
    ELSE Leaves(g.parts, Nesting(g.type) - 1)

\* the coordinates geo's bounding_rect goes over: of a polygon, those of its
\* exterior ring
RectCoordinates(g) ==
    IF g.type = "Polygon" THEN (IF Len(g.parts) = 0 THEN <<>> ELSE g.parts[1])
    ELSE IF g.type = "MultiPolygon"
    THEN Flatten([k \in 1..Len(g.parts) |->
                     IF Len(g.parts[k]) = 0 THEN <<>> ELSE g.parts[k][1]])
    ELSE Coordinates(g)

\* `g.bounding_rect().map(|rect| rect.to_polygon())` of a WKB geometry: None
\* without coordinates, else the polygon of the rectangle (min, max)
bounding_rect(g) ==
    LET cs == RectCoordinates(g)
        xs == {cs[i][1] : i \in 1..Len(cs)}
        ys == {cs[i][2] : i \in 1..Len(cs)}
    IN IF Len(cs) = 0 THEN Null
       ELSE Valid([min |-> <<SetMin(xs), SetMin(ys)>>, max |-> <<SetMax(xs), SetMax(ys)>>])

\* Envelope::invoke
Envelope_invoke(args) ==
    IF Len(args) # 3 THEN KernelPanic
    ELSE LET geomtype == from_str(args[2])
         IN IF ~geomtype.ok THEN KernelErr
            ELSE IF args[1].data_type \in {"Binary", "LargeBinary"}
            THEN Returned(ArrayValue([i \in 1..args[1].len |->
                     IF Len(args[1].items[i]) = 0 THEN Null
                     ELSE bounding_rect(args[1].items[i][1])]))
            ELSE IF ~from_arrow_array_ok(args[1], native_type(args[1], geomtype.ty))
            THEN KernelPanic
            ELSE array_envelope(args[1])

----------------------------------------------------------------------------
(* Inputs of the WKT writer *)

Sinks == {"String", "Failing"}
Dimensions == {"Xy", "Xyz"}

WktCoords(dims) ==
    IF dims = "Xy" THEN {<<x, y>> : x \in 0..MaxVal, y \in 0..MaxVal}
    ELSE {<<x, y, 9>> : x \in 0..MaxVal, y \in 0..MaxVal}

\* a point: no coordinate (the empty point) or one
WktPoints(dims) == {<<>>} \cup {<<c>> : c \in WktCoords(dims)}

WktLines(dims) == SeqsUpTo(WktCoords(dims), MaxWktCoords)

\* rings and member line strings, over two coordinates
PartCoords(dims) == IF dims = "Xy" THEN {<<0, 0>>, <<1, 0>>} ELSE {<<0, 0, 9>>, <<1, 0, 9>>}
PartLines(dims) == SeqsUpTo(PartCoords(dims), MaxWktCoords)

\* polygons inside a MultiPolygon: up to two rings of zero, one or two coordinates
MemberRings(dims) ==
    IF dims = "Xy" THEN {<<>>, << <<0, 0>> >>, << <<0, 0>>, <<1, 0>> >>}
    ELSE {<<>>, << <<0, 0, 9>> >>, << <<0, 0, 9>>, <<1, 0, 9>> >>}
MemberPolygons(dims) == SeqsUpTo(MemberRings(dims), 2)

\* the MultiPolygon of the unit test tests::multi_polygon
TestMultiPolygon ==
    << << << <<0, 0>>, <<4, 0>>, <<2, 4>>, <<0, 0>> >> >>,
       << << <<4, 4>>, <<8, 4>>, <<8, 8>>, <<4, 8>>, <<4, 4>> >> >> >>

\* members of a GeometryCollection
MemberGeometries(dims) ==
    {Geometry("Point", dims, p) : p \in {<<>>} \cup {<<c>> : c \in PartCoords(dims)}}
        \cup {Geometry("LineString", dims, l) : l \in {<<>>} \cup {<<c>> : c \in PartCoords(dims)}}

GeometryTypes ==
    {"Point", "LineString", "Polygon", "MultiPoint", "MultiLineString", "MultiPolygon",
     "GeometryCollection", "Rect"}

\* the geometry values of one type handed to the writer
Geometries(type, dims) ==
    CASE type = "Point" -> {Geometry(type, dims, p) : p \in WktPoints(dims)}
      [] type = "LineString" -> {Geometry(type, dims, l) : l \in WktLines(dims)}
      [] type = "Polygon" ->
            {Geometry(type, dims, rings) : rings \in SeqsUpTo(PartLines(dims), MaxParts)}
      [] type = "MultiPoint" ->
            {Geometry(type, dims, ps) : ps \in SeqsUpTo(WktPoints(dims), MaxParts)}
      [] type = "MultiLineString" ->
            {Geometry(type, dims, ls) : ls \in SeqsUpTo(PartLines(dims), MaxParts)}
      [] type = "MultiPolygon" ->
            {Geometry(type, dims, ps) :
                ps \in SeqsUpTo(MemberPolygons(dims), MaxParts)
                         \cup (IF dims = "Xy" THEN {TestMultiPolygon} ELSE {})}
      [] type = "GeometryCollection" ->
            {Geometry(type, dims, gs) : gs \in SeqsUpTo(MemberGeometries(dims), MaxParts)}
      [] type = "Rect" ->
            {Geometry(type, "Xy", <<min, max>>) : min \in WktCoords("Xy"), max \in WktCoords("Xy")}

WktInvocations(type) ==
    {[kernel |-> "geometry_to_wkt", args |-> <<g, writer>>] :
        g \in UNION {Geometries(type, dims) : dims \in Dimensions}, writer \in Sinks}

----------------------------------------------------------------------------
(* Inputs of the kernels *)

\* the slot of a point in a coordinate buffer: NaN on every axis for the
\* empty point
PointCoord(p, D) == IF Len(p) = 0 THEN [a \in 1..D |-> NAN] ELSE p[1]

\* what a row adds below its own offset: nothing for a null row
RowNodes(variant, D, item) ==
    IF variant = "Point"
    THEN IF Len(item) = 0 THEN [a \in 1..D |-> 0] ELSE PointCoord(item[1].parts, D)
    ELSE IF Len(item) = 0 THEN <<>>
    ELSE IF variant = "MultiPoint"
    THEN [k \in 1..Len(item[1].parts) |-> PointCoord(item[1].parts[k], D)]
    ELSE item[1].parts

\* geom_offsets, then polygon_offsets and ring_offsets where the type has them
RECURSIVE Levels(_, _)
Levels(nodes, depth) ==
    IF depth = 0 THEN <<>>
    ELSE <<from_lengths([i \in 1..Len(nodes) |-> Len(nodes[i])])>>
             \o Levels(Flatten(nodes), depth - 1)

\* the native array a geoarrow builder makes of the rows `items`
\* (Option<geometry> each): buffers, offsets and validity, and the rows as
\* iter() gives them back
GeometryArray(variant, kind, dims, items) ==
    LET D == IF dims = "Xy" THEN 2 ELSE 3
        nodes == [i \in 1..Len(items) |-> RowNodes(variant, D, items[i])]
    IN [data_type |-> "Native", variant |-> variant, dim |-> D,
        coords |-> Layout(kind, D, Leaves(nodes, Nesting(variant))),
        len |-> Len(items), validity |-> [i \in 1..Len(items) |-> Len(items[i]) # 0],
        offsets |-> Levels(nodes, Nesting(variant)), items |-> items]

\* a WKB column holding the rows `items`
WkbColumn(data_type, items) ==
    [data_type |-> data_type, variant |-> "", dim |-> 2, coords |-> Interleaved(2, <<>>),
     len |-> Len(items), validity |-> [i \in 1..Len(items) |-> Len(items[i]) # 0],
     offsets |-> <<>>, items |-> items]

\* coordinates of the rows of a column
RowCoords(dims) == IF dims = "Xy" THEN {<<0, 1>>, <<1, 0>>} ELSE {<<0, 1, 9>>, <<1, 0, 9>>}

\* the parts a geometry of one type can make of the coordinates cs: all in
\* one part, split after the first coordinate, with an empty part beside
\* them, or no part at all
Shapes(type, cs) ==
    LET split == IF Len(cs) < 2 THEN <<cs>> ELSE <<SubSeq(cs, 1, 1), SubSeq(cs, 2, Len(cs))>>
    IN CASE type = "Point" -> IF Len(cs) <= 1 THEN {cs} ELSE {}
         [] type = "LineString" -> {cs}
         [] type = "MultiPoint" ->
               { [k \in 1..Len(cs) |-> <<cs[k]>>],
                 Append([k \in 1..Len(cs) |-> <<cs[k]>>], <<>>) }
         [] type \in {"Polygon", "MultiLineString"} -> {<<>>, <<cs>>, <<cs, <<>>>>, split}
         [] type = "MultiPolygon" ->
               {<<>>, << <<>> >>, << <<cs>> >>, << <<cs, <<>>>> >>, << split >>,
                [k \in 1..Len(split) |-> <<split[k]>>]}

\* geometries of one type that hold at most MaxWktCoords coordinates
RowGeometries(type, dims) ==
    UNION { {Geometry(type, dims, p) : p \in Shapes(type, cs)} :
            cs \in SeqsUpTo(RowCoords(dims), MaxWktCoords) }

\* the geometries of a WKB column: those without an empty point
WkbGeometries(type, dims) ==
    {g \in RowGeometries(type, dims) :
        /\ type = "Point" => Len(g.parts) # 0
        /\ type = "MultiPoint" => \A k \in 1..Len(g.parts) : Len(g.parts[k]) # 0}

\* rows of a column: a null row, a geometry, and a geometry beside a null
\* row or beside itself
ItemRows(type) ==
    {<<None>>} \cup
    UNION { {<<Some(g)>>, <<Some(g), None>>, <<None, Some(g)>>, <<Some(g), Some(g)>>} :
            g \in RowGeometries(type, "Xy") }

\* the literals the analyzer appends for a column: geometry type, encoding
Tags(array, type) ==
    << GeomTypeStr(type, IF array.data_type = "Native" THEN array.dim
                         ELSE IF \E i \in 1..array.len :
                                    Len(array.items[i]) # 0 /\ array.items[i][1].dims = "Xyz"
                              THEN 3 ELSE 2),
       IF array.data_type = "Native" THEN EncodingStr(type) ELSE "WKB" >>

Kernels == {"ST_AsText", "ST_GeometryType", "ST_Envelope", "ST_Extent"}

\* the columns of one type: both layouts and both WKB types in two
\* dimensions, single rows in three
KernelArrays(type) ==
    UNION { {GeometryArray(type, kind, "Xy", items) : kind \in Layouts} : items \in ItemRows(type) }
      \cup UNION { {GeometryArray(type, kind, "Xyz", <<Some(g)>>) : kind \in Layouts} :
                   g \in RowGeometries(type, "Xyz") }
      \cup UNION { {WkbColumn("Binary", <<Some(g), None>>), WkbColumn("LargeBinary", <<Some(g)>>)} :
                   g \in WkbGeometries(type, "Xy") }
      \cup {WkbColumn("Binary", <<Some(g)>>) : g \in WkbGeometries(type, "Xyz")}

\* calls with the literals in the analyzer's order; ST_AsText also with the
\* literals in the order it reads them
KernelInvocations(type) ==
    UNION { {[kernel |-> k, args |-> <<a, Tags(a, type)[1], Tags(a, type)[2]>>] : k \in Kernels}
                \cup {[kernel |-> "ST_AsText", args |-> <<a, Tags(a, type)[2], Tags(a, type)[1]>>]} :
            a \in KernelArrays(type) }

\* a geometry collection of points
PointCollection(cs) ==
    Geometry("GeometryCollection", "Xy", [k \in 1..Len(cs) |-> Geometry("Point", "Xy", <<cs[k]>>)])

\* a native GeometryCollection column of one row; helpers::coord_type finds
\* no layout in its data type
CollectionArray(kind, cs) ==
    [data_type |-> "Native", variant |-> "GeometryCollection", dim |-> 2,
     coords |-> Layout(kind, 2, cs), len |-> 1, validity |-> <<TRUE>>,
     offsets |-> <<>>, items |-> <<Some(PointCollection(cs))>>]

\* calls of the two bounding kernels on the variants they do not cover: a
\* column tagged "Mixed", and GeometryCollection columns, native and WKB
GapInvocations ==
    UNION { {[kernel |-> k, args |-> <<CollectionArray(kind, cs), "GeometryCollection", "WKB">>] :
                 kind \in Layouts}
            \cup {[kernel |-> k, args |-> <<WkbColumn(ty, <<Some(PointCollection(cs))>>),
                                            "GeometryCollection", "WKB">>] :
                      ty \in {"Binary", "LargeBinary"}}
            \cup {[kernel |-> k, args |-> <<a, "Mixed", "WKB">>] :
                      a \in {WkbColumn("Binary", <<Some(Geometry("Point", "Xy", <<cs[1]>>)),
                                                   Some(Geometry("LineString", "Xy", cs))>>),
                             GeometryArray("Point", "Separated", "Xy",
                                           <<Some(Geometry("Point", "Xy", <<cs[1]>>))>>)}} :
            k \in {"ST_Envelope", "ST_Extent"}, cs \in {<<c>> : c \in RowCoords("Xy")} }

\* the coordinate sequences handed to min_max_2d
MinMaxCoords(D) == SeqsUpTo(CoordTuples(D), IF D = 2 THEN MaxCoords + 1 ELSE MaxCoords)

\* calls of min_max_2d: a coordinate sequence in either layout, with and
\* without the empty-point check
MinMaxInvocations ==
    UNION { {[kernel |-> "min_max_2d", args |-> <<Layout(kind, D, cs), check>>] :
                 kind \in Layouts, check \in BOOLEAN, cs \in MinMaxCoords(D)} :
            D \in {2, 3} }

----------------------------------------------------------------------------
(* SpecKernels: one call of a kernel on one input *)

Pending == [status |-> "pending", out |-> <<>>]

\* geometry_to_wkt(&geometry, &mut writer)
WriteWkt ==
    /\ invocation.kernel = "geometry_to_wkt"
    /\ result = Pending
    /\ result' = geometry_to_wkt(invocation.args[1], invocation.args[2])
    /\ UNCHANGED <<invocation, extentVars, partVars, anVars>>

\* AsText::invoke(args)
InvokeAsText ==
    /\ invocation.kernel = "ST_AsText"
    /\ result.status = "pending"
    /\ result' = AsText_invoke(invocation.args)
    /\ UNCHANGED <<invocation, extentVars, partVars, anVars>>

\* GeometryType::invoke(args)
InvokeGeometryType ==
    /\ invocation.kernel = "ST_GeometryType"
    /\ result.status = "pending"
    /\ result' = GeometryType_invoke(invocation.args)
    /\ UNCHANGED <<invocation, extentVars, partVars, anVars>>

\* Envelope::invoke(args)
InvokeEnvelope ==
    /\ invocation.kernel = "ST_Envelope"
    /\ result.status = "pending"
    /\ result' = Envelope_invoke(invocation.args)
    /\ UNCHANGED <<invocation, extentVars, partVars, anVars>>

\* ExtentAccumulator::update_batch on a fresh accumulator, the literals
\* expanded to the rows of the batch
InvokeExtent ==
    /\ invocation.kernel = "ST_Extent"
    /\ result.status = "pending"
    /\ LET a == invocation.args
           r == update_batch(new, Values(a[1], a[2], a[3]))
       IN result' = [status |-> r.ret.status, out |-> state(r.acc)]
    /\ UNCHANGED <<invocation, extentVars, partVars, anVars>>

\* min_max_2d(coords, empty_point_check)
InvokeMinMax ==
    /\ invocation.kernel = "min_max_2d"
    /\ result.status = "pending"
    /\ result' = [status |-> "Ok", out |-> min_max_2d(invocation.args[1], invocation.args[2])]
    /\ UNCHANGED <<invocation, extentVars, partVars, anVars>>

InitKernels ==
    /\ ExtentIdle
    /\ PartIdle
    /\ AnalyzerIdle
    /\ result = Pending
    /\ \/ \E type \in GeometryTypes : invocation \in WktInvocations(type)
       \/ \E type \in NativeVariants : invocation \in KernelInvocations(type)
       \/ invocation \in GapInvocations
       \/ invocation \in MinMaxInvocations

NextKernels ==
    \/ WriteWkt
    \/ InvokeAsText
    \/ InvokeGeometryType
    \/ InvokeEnvelope
    \/ InvokeExtent
    \/ InvokeMinMax

SpecKernels == InitKernels /\ [][NextKernels]_vars

----------------------------------------------------------------------------
(* Properties of the ST_Extent aggregate *)

Merging == phase \in {"merge", "done"} /\ srcs # <<>>

\* C1: when every partition has been merged, the merged accumulator
\* evaluates to the same (xmin, ymin, xmax, ymax) as the accumulator that ran
\* update_batch over all batches.
C1_PartitionMergeEqualsSingle ==
    phase = "done" => evaluate(final) = evaluate(single)

\* C2: after merge_batch the receiver's xmin and ymin are the minimum of its
\* previous value and every incoming partial xmin / ymin, and its xmax and
\* ymax are the maximum of its previous value and every incoming partial
\* xmax / ymax.
C2_MergeTakesMinOfLowerMaxOfUpper ==
    Merging =>
        /\ final.xmin = SetMin({prevFinal.xmin} \cup {parts[srcs[i]].xmin : i \in 1..Len(srcs)})
        /\ final.ymin = SetMin({prevFinal.ymin} \cup {parts[srcs[i]].ymin : i \in 1..Len(srcs)})
        /\ final.xmax = SetMax({prevFinal.xmax} \cup {parts[srcs[i]].xmax : i \in 1..Len(srcs)})
        /\ final.ymax = SetMax({prevFinal.ymax} \cup {parts[srcs[i]].ymax : i \in 1..Len(srcs)})

\* C3: merging the state() of a freshly created accumulator into another
\* freshly created accumulator leaves the receiver equal to new().
C3_IdentityIdempotentUnderMerge ==
    (Merging /\ Len(srcs) = 1 /\ parts[srcs[1]] = new /\ prevFinal = new) => final = new

\* one call on the accumulator: update_batch over a batch or merge_batch
\* over the columns of some state() rows
Calls ==
    {[method |-> "update_batch", arg |-> values] : values \in NativeBatches}
        \cup {[method |-> "merge_batch", arg |-> StateArrays(rows)] :
                 rows \in SeqsUpTo(StateRows, MaxRows) \ {<<>>}}

Apply(self, call) ==
    IF call.method = "update_batch" THEN update_batch(self, call.arg).acc
    ELSE merge_batch(self, call.arg).acc

Reverse(s) == [i \in 1..Len(s) |-> s[Len(s) + 1 - i]]

\* C4: the result does not depend on the order of the calls: from every
\* accumulator state any two calls (update_batch or merge_batch) give the
\* same evaluate() result in either order, and merge_batch gives the same
\* result for the rows of a state array in either order.
C4_OrderIndependent ==
    /\ \A c1 \in Calls, c2 \in Calls :
          evaluate(Apply(Apply(acc, c1), c2)) = evaluate(Apply(Apply(acc, c2), c1))
    /\ \A rows \in SeqsUpTo(StateRows, MaxRows) :
          merge_batch(acc, StateArrays(rows)) = merge_batch(acc, StateArrays(Reverse(rows)))

\* axis a (1 = x, 2 = y) of the coordinate in slot i of a coordinate buffer
CoordAt(cb, i, a) ==
    IF cb.kind = "Interleaved" THEN cb.coords[(i - 1) * cb.dim + a] ELSE cb.buffers[a][i]

\* rows of a Point array that are valid and are not the empty point
ContributingRows(arr) ==
    {i \in 1..arr.len :
        arr.validity[i] /\ ~(is_nan(CoordAt(arr.coords, i, 1)) /\ is_nan(CoordAt(arr.coords, i, 2)))}

\* every valid row is a point with two numbers or the empty point
ProperPoints(arr) ==
    \A i \in 1..arr.len :
        arr.validity[i] => (is_nan(CoordAt(arr.coords, i, 1)) <=> is_nan(CoordAt(arr.coords, i, 2)))

\* the extent of the contributing rows folded into an accumulator
ExtentWithRows(self, arr) ==
    LET xs == {CoordAt(arr.coords, i, 1) : i \in ContributingRows(arr)}
        ys == {CoordAt(arr.coords, i, 2) : i \in ContributingRows(arr)}
    IN [xmin |-> SetMin({self.xmin} \cup xs), ymin |-> SetMin({self.ymin} \cup ys),
        xmax |-> SetMax({self.xmax} \cup xs), ymax |-> SetMax({self.ymax} \cup ys)]

\* C5: for a native Point column, in both coordinate layouts, update_batch
\* yields the extent of the valid, non-empty rows only; for
\* [(0,0),(NaN,NaN),(10,-5)] the result is xmin 0, ymin -5, xmax 10, ymax 0.
C5_NullAndEmptyRowsContributeNothing ==
    /\ \A values \in PointBatches :
          ProperPoints(values[1]) =>
              update_batch(acc, values).acc = ExtentWithRows(acc, values[1])
    /\ \A kind \in Layouts :
          update_batch(new, S2Values(kind)).acc =
              [xmin |-> 0, ymin |-> 0 - 5, xmax |-> 10, ymax |-> 0]

----------------------------------------------------------------------------
(* Properties of the SpatialAnalyzerRule *)

IsSpatialCall(e) ==
    e.kind \in {"ScalarFunction", "AggregateFunction"} /\ starts_with_ST(e.name)

\* the spatial calls of an expression, those of the arguments before the
\* call itself; the rewrite adds aliases and literals only, so the k-th call
\* of the rewritten expression is the rewritten k-th call of the original
RECURSIVE SpatialCalls(_)
RECURSIVE SpatialCallsOfArgs(_, _)
SpatialCallsOfArgs(args, i) ==
    IF i > Len(args) THEN <<>>
    ELSE SpatialCalls(args[i]) \o SpatialCallsOfArgs(args, i + 1)

SpatialCalls(e) ==
    IF IsSpatialCall(e) THEN Append(SpatialCallsOfArgs(e.args, 1), e)
    ELSE SpatialCallsOfArgs(e.args, 1)

RECURSIVE PlanCallsFrom(_, _)
PlanCallsFrom(p, n) ==
    IF n > Len(p) THEN <<>>
    ELSE SpatialCallsOfArgs(p[n].exprs, 1) \o PlanCallsFrom(p, n + 1)

\* the spatial calls of all expressions of a plan
PlanCalls(p) == PlanCallsFrom(p, 1)

\* the Column expressions inside an expression
RECURSIVE ColumnsOf(_)
ColumnsOf(e) ==
    IF e.kind = "Column" THEN {e}
    ELSE UNION {ColumnsOf(e.args[i]) : i \in 1..Len(e.args)}

\* the scans a column qualifier names in SQL: the scan of the table of that
\* name, or the scan under the SubqueryAlias of that name
ScansNamed(p, rel) ==
    {i \in 1..Len(p) :
        /\ p[i].kind = "TableScan"
        /\ \/ p[i].table_name = rel
           \/ /\ i < Len(p)
              /\ p[i + 1].kind = "SubqueryAlias"
              /\ rel = TableRef("", p[i + 1].alias)}

\* the metadata entries of column c in the geo metadata of the scans it names
GeoColumnsOf(p, c) ==
    IF c.kind = "Column" /\ c.rel.some
    THEN UNION {{column \in p[i].geo.columns : column.name = c.name} :
                    i \in {j \in ScansNamed(p, c.rel) : p[j].geo.parseable}}
    ELSE {}

\* the geometry-type string the metadata of a column stands for
ExpectedTypeName(geometry_types) ==
    CASE Cardinality(geometry_types) = 0 -> "Unknown"
      [] Cardinality(geometry_types) = 1 -> CHOOSE t \in geometry_types : TRUE
      [] OTHER -> "Mixed"

\* analyze has returned Ok for the user's plan
FirstPassDone == status = "ok" /\ pass = 1

\* C6: after one analyze pass, every spatial call whose one argument is a
\* column of a table whose scan carries geo metadata has its original
\* argument followed by exactly two string literals: the geometry-type
\* string and then the encoding string of that column's metadata.
C6_GeoColumnCallGetsTypeAndEncoding ==
    FirstPassDone =>
        LET ins == PlanCalls(input)
            outs == PlanCalls(plan)
        IN \A k \in DOMAIN ins :
              (Len(ins[k].args) = 1) =>
                  \A column \in GeoColumnsOf(input, ins[k].args[1]) :
                      outs[k].args = ins[k].args \o
                          <<lit(ExpectedTypeName(column.geometry_types)),
                            lit(column.encoding)>>

\* C7: a second analyze over the plan the first analyze returned gives back
\* that plan: no spatial call gains arguments.
C7_SecondPassIsFixedPoint ==
    (status = "ok" /\ pass > 1) => plan = input

\* C8: after analyze, a spatial call all of whose columns belong to a table
\* whose scan has no `geo` metadata has the argument list it had before.
C8_NoRewriteAboveScanWithoutGeo ==
    FirstPassDone =>
        LET ins == PlanCalls(input)
            outs == PlanCalls(plan)
        IN \A k \in DOMAIN ins :
              (/\ ColumnsOf(ins[k]) # {}
               /\ \A c \in ColumnsOf(ins[k]) :
                     /\ c.rel.some
                     /\ ScansNamed(input, c.rel) # {}
                     /\ \A i \in ScansNamed(input, c.rel) : ~input[i].geo.present)
              => outs[k].args = ins[k].args

\* the only scan whose unqualified table name is the table of c's qualifier
ScansOfTable(p, c) ==
    {i \in 1..Len(p) : p[i].kind = "TableScan" /\ p[i].table_name.table = c.rel.table}

\* the k-th spatial call has a column as first argument whose qualifier is
\* the table name of exactly one scan, and that scan's geo metadata lists it
ResolvesColumn(p, call) ==
    /\ Len(call.args) > 0
    /\ call.args[1].kind = "Column"
    /\ call.args[1].rel.some
    /\ Cardinality(ScansOfTable(p, call.args[1])) = 1
    /\ \A i \in ScansOfTable(p, call.args[1]) :
          /\ p[i].geo.parseable
          /\ has_column(p[i].geo, call.args[1].name)

ResolvedColumn(p, call) ==
    get_column(p[CHOOSE i \in ScansOfTable(p, call.args[1]) : TRUE].geo, call.args[1].name)

\* C9: the geometry-type literal the analyzer appends for a column is
\* "Unknown" when the column's geometry_types set is empty, the name of the
\* single variant when it has one element, and "Mixed" when it has two or
\* more.
C9_TypeLiteralByCardinality ==
    status = "ok" =>
        LET ins == PlanCalls(input)
            outs == PlanCalls(plan)
        IN \A k \in DOMAIN ins :
              ResolvesColumn(input, ins[k]) =>
                  /\ Len(outs[k].args) = Len(ins[k].args) + 2
                  /\ outs[k].args[Len(ins[k].args) + 1] =
                        lit(ExpectedTypeName(ResolvedColumn(input, ins[k]).geometry_types))

\* C9 witness: a call over a column with two or more geometry types has
\* been rewritten and carries "Mixed"
C9_MixedAppended ==
    /\ FirstPassDone
    /\ \E k \in DOMAIN PlanCalls(input) :
          /\ ResolvesColumn(input, PlanCalls(input)[k])
          /\ Cardinality(ResolvedColumn(input, PlanCalls(input)[k]).geometry_types) >= 2
          /\ PlanCalls(plan)[k].args[2] = lit("Mixed")

\* C10: after analyze, a spatial call whose argument is the scalar call
\* ST_Envelope carries the two trailing literals "Polygon" and "polygon".
C10_OuterCallGetsProducerMapping ==
    FirstPassDone =>
        LET ins == PlanCalls(input)
            outs == PlanCalls(plan)
        IN \A k \in DOMAIN ins :
              (/\ Len(ins[k].args) = 1
               /\ ins[k].args[1].kind = "ScalarFunction"
               /\ ins[k].args[1].name = "ST_Envelope")
              => /\ Len(outs[k].args) = 3
                 /\ outs[k].args[2] = lit("Polygon")
                 /\ outs[k].args[3] = lit("polygon")

\* a spatial call whose argument is a spatial scalar call other than
\* ST_Envelope
HasUnknownProducer(call) ==
    \E i \in 1..Len(call.args) :
        /\ call.args[i].kind = "ScalarFunction"
        /\ starts_with_ST(call.args[i].name)
        /\ call.args[i].name # "ST_Envelope"

\* C11: when the user's plan holds a spatial call over an unknown producer,
\* the analyze call on it neither returns a plan nor panics: it ends with an
\* error value.
C11_UnknownProducerIsAnError ==
    (pass = 1 /\ \E k \in DOMAIN PlanCalls(input) : HasUnknownProducer(PlanCalls(input)[k]))
        => status \in {"running", "err"}

\* C12: when some scan of the user's plan carries a `geo` value that does not
\* parse, analyze returns no plan.
C12_MalformedGeoIsAnError ==
    (pass = 1 /\ \E i \in DOMAIN input :
                    input[i].kind = "TableScan" /\ input[i].geo.present /\ ~input[i].geo.parseable)
        => status \in {"running", "err"}

\* the aliases that wrap a spatial call directly, in the order of SpatialCalls
RECURSIVE CallAliases(_)
RECURSIVE CallAliasesOfArgs(_, _)
CallAliasesOfArgs(args, i) ==
    IF i > Len(args) THEN <<>>
    ELSE CallAliases(args[i]) \o CallAliasesOfArgs(args, i + 1)

CallAliases(e) ==
    IF e.kind = "Alias" /\ IsSpatialCall(e.args[1])
    THEN Append(CallAliasesOfArgs(e.args, 1), e)
    ELSE CallAliasesOfArgs(e.args, 1)

RECURSIVE PlanAliasesFrom(_, _)
PlanAliasesFrom(p, n) ==
    IF n > Len(p) THEN <<>>
    ELSE CallAliasesOfArgs(p[n].exprs, 1) \o PlanAliasesFrom(p, n + 1)

PlanAliases(p) == PlanAliasesFrom(p, 1)

\* C13: in the plan analyze returns, every rewritten spatial call stands
\* under an alias that is the output name the call had before the literals
\* were appended, and every expression of every node has the output name it
\* had before.
C13_OutputNamesPreserved ==
    status = "ok" =>
        LET ins == PlanCalls(input)
            outs == PlanCalls(plan)
            aliases == PlanAliases(plan)
        IN /\ Len(aliases) = Len(ins)
           /\ \A k \in DOMAIN ins :
                 /\ aliases[k].args[1] = outs[k]
                 /\ aliases[k].name = name_for_alias(ins[k])
           /\ \A n \in DOMAIN plan : \A i \in DOMAIN plan[n].exprs :
                 name_for_alias(plan[n].exprs[i]) = name_for_alias(input[n].exprs[i])

\* C13 witness: a nested call has been rewritten; the outer call has three
\* arguments and stands under the name of the original nested expression
C13_NestedCallKeepsName ==
    /\ FirstPassDone
    /\ \E k \in DOMAIN PlanAliases(plan) :
          /\ PlanAliases(plan)[k].name = "ST_AsText(ST_Envelope(tbl.geometry))"
          /\ Len(PlanAliases(plan)[k].args[1].args) = 3
          /\ Len(PlanCalls(input)[k].args) = 1

----------------------------------------------------------------------------
(* Properties of the WKT writer *)

\* geometry_to_wkt has been called and has come to an end
WktDone == invocation.kernel = "geometry_to_wkt" /\ result # Pending
WktGeometry == invocation.args[1]
WktSink == invocation.args[2]

\* C18: geometry_to_wkt never panics; it returns Ok, or Err when the sink
\* fails a write.
C18_WriterNeverPanics ==
    WktDone =>
        /\ result.status \in {"Ok", "Err"}
        /\ result.status = "Err" => WktSink = "Failing"

\* the six variants with a keyword and grammar of their own
SimpleTypes ==
    {"Point", "LineString", "Polygon", "MultiPoint", "MultiLineString", "MultiPolygon"}

Keyword(type) ==
    CASE type = "Point" -> "POINT"
      [] type = "LineString" -> "LINESTRING"
      [] type = "Polygon" -> "POLYGON"
      [] type = "MultiPoint" -> "MULTIPOINT"
      [] type = "MultiLineString" -> "MULTILINESTRING"
      [] type = "MultiPolygon" -> "MULTIPOLYGON"
      [] type = "GeometryCollection" -> "GEOMETRYCOLLECTION"

\* parenthesis nesting the grammar gives each variant
NestingDepth(type) ==
    CASE type \in {"Point", "LineString"} -> 1
      [] type \in {"Polygon", "MultiPoint", "MultiLineString"} -> 2
      [] type = "MultiPolygon" -> 3

\* the value and all of its components hold at least one coordinate
NonEmptyThroughout(g) ==
    /\ Len(g.parts) > 0
    /\ g.type \in {"Polygon", "MultiPoint", "MultiLineString"} =>
          \A i \in DOMAIN g.parts : Len(g.parts[i]) > 0
    /\ g.type = "MultiPolygon" =>
          \A i \in DOMAIN g.parts :
              /\ Len(g.parts[i]) > 0
              /\ \A j \in DOMAIN g.parts[i] : Len(g.parts[i][j]) > 0

\* the value is empty: no coordinate, no exterior ring or an exterior ring
\* without coordinates, no member
IsEmptyValue(g) ==
    \/ Len(g.parts) = 0
    \/ g.type = "Polygon" /\ Len(g.parts[1]) = 0

\* the text of the grammar: axis values joined by ' ', coordinates and
\* sibling groups joined by ','
CoordText(c) == JoinNames([a \in DOMAIN c |-> fmt_debug(c[a])], " ")
CoordsText(cs) == "(" \o JoinNames([i \in DOMAIN cs |-> CoordText(cs[i])], ",") \o ")"
GroupText(texts) == "(" \o JoinNames(texts, ",") \o ")"

BodyText(g) ==
    CASE g.type \in {"Point", "LineString"} -> CoordsText(g.parts)
      [] g.type \in {"Polygon", "MultiPoint", "MultiLineString"} ->
            GroupText([i \in DOMAIN g.parts |-> CoordsText(g.parts[i])])
      [] g.type = "MultiPolygon" ->
            GroupText([i \in DOMAIN g.parts |->
                          GroupText([j \in DOMAIN g.parts[i] |-> CoordsText(g.parts[i][j])])])

\* parentheses a written string closes and opens
Closes(tok) == CASE tok \in {")", "),("} -> 1 [] tok = "))" -> 2 [] OTHER -> 0
Opens(tok) == CASE tok \in {"(", "),("} -> 1 [] tok = "((" -> 2 [] OTHER -> 0

\* depth after the writes from i on, deepest level reached, and whether a
\* parenthesis was closed that was not open
RECURSIVE ParenRun(_, _, _, _, _)
ParenRun(out, i, depth, deepest, sound) ==
    IF i > Len(out) THEN [depth |-> depth, deepest |-> deepest, sound |-> sound]
    ELSE LET low == depth - Closes(out[i])
             high == low + Opens(out[i])
         IN ParenRun(out, i + 1, high, IF high > deepest THEN high ELSE deepest,
                     sound /\ low >= 0)

Parens(out) == ParenRun(out, 1, 0, 0, TRUE)

\* C19: for a 2D value of the six variants that is non-empty throughout, the
\* writer returns Ok with the upper-case keyword, one space and the
\* parenthesized groups of the grammar: coordinates in input order, axis
\* values separated by ' ', coordinates and groups by ',', parentheses
\* balanced and nested 1, 2 or 3 deep by variant.
C19_NonEmpty2DText ==
    (/\ WktDone
     /\ WktSink = "String"
     /\ WktGeometry.type \in SimpleTypes
     /\ WktGeometry.dims = "Xy"
     /\ NonEmptyThroughout(WktGeometry))
    => /\ result.status = "Ok"
       /\ Text(result.out) = Keyword(WktGeometry.type) \o " " \o BodyText(WktGeometry)
       /\ Parens(result.out).sound
       /\ Parens(result.out).depth = 0
       /\ Parens(result.out).deepest = NestingDepth(WktGeometry.type)

\* C19 witness: the MultiPolygon of the unit test has been written
C19_TestMultiPolygonWritten ==
    /\ WktDone
    /\ WktGeometry = Geometry("MultiPolygon", "Xy", TestMultiPolygon)
    /\ result.status = "Ok"
    /\ Text(result.out) =
          "MULTIPOLYGON (((0.0 0.0,4.0 0.0,2.0 4.0,0.0 0.0)),((4.0 4.0,8.0 4.0,8.0 8.0,4.0 8.0,4.0 4.0)))"

\* C20: an empty value is written as its keyword and " EMPTY"; a 3D value of
\* the six variants that is non-empty throughout is written with one " Z"
\* between keyword and opening parenthesis and three axis values per
\* coordinate.
C20_EmptyAndZ ==
    (WktDone /\ WktSink = "String" /\ WktGeometry.type # "Rect")
    => /\ IsEmptyValue(WktGeometry) =>
             /\ result.status = "Ok"
             /\ result.out = <<Keyword(WktGeometry.type), " EMPTY">>
       /\ (/\ WktGeometry.type \in SimpleTypes
           /\ WktGeometry.dims = "Xyz"
           /\ NonEmptyThroughout(WktGeometry)) =>
             /\ result.status = "Ok"
             /\ Text(result.out) = Keyword(WktGeometry.type) \o " Z " \o BodyText(WktGeometry)
             /\ Cardinality({i \in DOMAIN result.out : result.out[i] = " Z "}) = 1

\* C20 witness: a 3D line string of two coordinates has been written
C20_LineStringZWritten ==
    /\ WktDone
    /\ WktGeometry.type = "LineString"
    /\ Text(result.out) = "LINESTRING Z (0.0 1.0 9.0,1.0 0.0 9.0)"

----------------------------------------------------------------------------
(* Properties of the kernels *)

KernelDone == invocation.kernel \in Kernels /\ result.status # "pending"
ScalarKernelDone ==
    invocation.kernel \in {"ST_AsText", "ST_GeometryType", "ST_Envelope"}
        /\ result.status # "pending"

\* the literals are in the order the analyzer appends them: type, encoding
AnalyzerOrder == from_str(invocation.args[2]).ok /\ encoding(invocation.args[3]).ok

\* the literals are in the order the kernel reads them
ReadOrder ==
    IF invocation.kernel = "ST_AsText"
    THEN encoding(invocation.args[2]).ok /\ from_str(invocation.args[3]).ok
    ELSE AnalyzerOrder

\* the rows of the result, a scalar repeated for every row of the column
ResultRows == into_array(result.out, invocation.args[1].len)

\* C14: every kernel reads (column, geometry type, encoding): a call whose
\* literals are in the analyzer's order is not rejected for its literals
C14_AnalyzerOrderAccepted ==
    (KernelDone /\ AnalyzerOrder) => result.status # "Err(Internal)"

\* C15: a scalar kernel returns one row per row of the column, and row i of
\* the result is null exactly when row i of the column is null
C15_NullMaskPreserved ==
    (ScalarKernelDone /\ ReadOrder) =>
        /\ result.status = "Ok"
        /\ Len(ResultRows) = invocation.args[1].len
        /\ \A i \in 1..invocation.args[1].len :
               ResultRows[i].valid = invocation.args[1].validity[i]

\* row i of the column is valid and holds no coordinate
EmptyRow(i) ==
    /\ invocation.args[1].validity[i]
    /\ Len(Coordinates(invocation.args[1].items[i][1])) = 0

EnvelopeReturned ==
    /\ invocation.kernel = "ST_Envelope"
    /\ invocation.args[1].data_type = "Native"
    /\ result.status = "Ok"

\* C16: ST_Envelope gives a null row for the empty point and for every valid
\* row without coordinates
C16_EmptyRowIsNull ==
    EnvelopeReturned =>
        \A i \in 1..invocation.args[1].len : EmptyRow(i) => ~ResultRows[i].valid

\* the closed ring of the extremes of the coordinates cs
ExtremesRing(cs) ==
    LET xmin == SetMin({cs[k][1] : k \in 1..Len(cs)})
        xmax == SetMax({cs[k][1] : k \in 1..Len(cs)})
        ymin == SetMin({cs[k][2] : k \in 1..Len(cs)})
        ymax == SetMax({cs[k][2] : k \in 1..Len(cs)})
    IN << <<xmin, ymin>>, <<xmax, ymin>>, <<xmax, ymax>>, <<xmin, ymax>>, <<xmin, ymin>> >>

\* C17: for a valid row with coordinates ST_Envelope gives the one ring
\* (xmin ymin, xmax ymin, xmax ymax, xmin ymax, xmin ymin) of the extremes of
\* the row's coordinates, in both layouts
C17_EnvelopeRing ==
    EnvelopeReturned =>
        \A i \in 1..invocation.args[1].len :
            (invocation.args[1].validity[i] /\ ~EmptyRow(i)) =>
                /\ ResultRows[i].valid
                /\ ResultRows[i].value
                       = <<ExtremesRing(Coordinates(invocation.args[1].items[i][1]))>>

\* the coordinates of the valid rows of a column
ColumnCoordinates(array) ==
    Flatten([i \in 1..array.len |->
                IF Len(array.items[i]) = 0 THEN <<>> ELSE Coordinates(array.items[i][1])])

\* the extent of the coordinates cs folded into a fresh accumulator
ExtentOf(cs) ==
    [xmin |-> SetMin({F64_MAX} \cup {cs[k][1] : k \in 1..Len(cs)}),
     ymin |-> SetMin({F64_MAX} \cup {cs[k][2] : k \in 1..Len(cs)}),
     xmax |-> SetMax({F64_MIN} \cup {cs[k][1] : k \in 1..Len(cs)}),
     ymax |-> SetMax({F64_MIN} \cup {cs[k][2] : k \in 1..Len(cs)})]

ExtentOnWkb ==
    /\ invocation.kernel = "ST_Extent"
    /\ result.status # "pending"
    /\ invocation.args[1].data_type \in {"Binary", "LargeBinary"}

\* C21: update_batch on a WKB column (Binary or LargeBinary) returns
\* normally, the bounding rectangle of every value folded into the bounds
C21_WkbBatchFolded ==
    ExtentOnWkb =>
        /\ result.status = "Ok"
        /\ result.out = state(ExtentOf(ColumnCoordinates(invocation.args[1])))

GapInput ==
    /\ invocation.kernel \in {"ST_Envelope", "ST_Extent"}
    /\ result.status # "pending"
    /\ \/ invocation.args[2] \in {"Mixed", "GeometryCollection", "GeometryCollection Z"}
       \/ invocation.args[1].variant = "GeometryCollection"

\* C22: on a Mixed or GeometryCollection input ST_Envelope and ST_Extent end
\* with an error value: they neither return a result nor panic
C22_GapsAreErrors == GapInput => result.status = "Err(Internal)"

\* the state() of one accumulator B = parts[srcs[1]] was merged into an
\* accumulator that held the values of a new one
MergedIntoNew ==
    /\ phase \in {"merge", "done"}
    /\ Len(srcs) = 1
    /\ prevFinal = new

\* C23: merge_batch reads the state columns in the order state() wrote
\* them: merging state(B) into a new accumulator A makes evaluate(A) equal
\* to evaluate(B)
C23_StateReadAsWritten ==
    MergedIntoNew => evaluate(final) = evaluate(parts[srcs[1]])

\* the coordinate slice the offset walk of ST_Envelope takes for row index
RowBuffer(array, index) ==
    CASE array.variant \in {"LineString", "MultiPoint"} -> line_string_coord_buffer(array, index)
      [] array.variant \in {"Polygon", "MultiLineString"} -> polygon_coord_buffer(array, index)
      [] array.variant = "MultiPolygon" -> multi_polygon_coord_buffer(array, index)

\* the coordinates of a coordinate buffer, axes 0 and 1
BufferCoords(coords) ==
    [k \in 1..CoordBufferLen(coords) |-> <<get_x(coords, k - 1), get_y(coords, k - 1)>>]

\* the coordinates the column stores for row i, axes 0 and 1
StoredCoords(array, i) ==
    LET cs == Leaves(RowNodes(array.variant, array.dim, array.items[i]),
                     Nesting(array.variant) - 1)
    IN [k \in 1..Len(cs) |-> <<cs[k][1], cs[k][2]>>]

EnvelopeWalked ==
    /\ invocation.kernel = "ST_Envelope"
    /\ result.status # "pending"
    /\ invocation.args[1].data_type = "Native"
    /\ invocation.args[1].variant \in NativeVariants \ {"Point"}

\* C24: for every valid row, the last one included, the offset walk stays
\* inside the offset arrays and yields exactly the coordinates of the row
C24_WalkYieldsRow ==
    EnvelopeWalked =>
        \A i \in 1..invocation.args[1].len :
            invocation.args[1].validity[i] =>
                /\ RowBuffer(invocation.args[1], i - 1).status = "Some"
                /\ BufferCoords(RowBuffer(invocation.args[1], i - 1).coords)
                       = StoredCoords(invocation.args[1], i)

\* the same for the rows before the last one
WalkYieldsRowBeforeLast ==
    EnvelopeWalked =>
        \A i \in 1..(invocation.args[1].len - 1) :
            invocation.args[1].validity[i] =>
                /\ RowBuffer(invocation.args[1], i - 1).status = "Some"
                /\ BufferCoords(RowBuffer(invocation.args[1], i - 1).coords)
                       = StoredCoords(invocation.args[1], i)

\* all axes of the coordinates of a coordinate buffer
AllCoords(coords) ==
    [k \in 1..CoordBufferLen(coords) |->
        [a \in 1..coords.dim |->
            IF coords.kind = "Interleaved" THEN coords.coords[(k - 1) * coords.dim + a]
            ELSE coords.buffers[a][k]]]

\* the same coordinate sequence in the other layout
OtherLayout(coords) ==
    Layout(IF coords.kind = "Interleaved" THEN "Separated" ELSE "Interleaved",
           coords.dim, AllCoords(coords))

\* the same coordinate sequence with axis 2 replaced by z
WithZ(coords, z) ==
    Layout(coords.kind, coords.dim,
           [k \in 1..CoordBufferLen(coords) |-> [AllCoords(coords)[k] EXCEPT ![3] = z]])

MinMaxDone == invocation.kernel = "min_max_2d" /\ result.status # "pending"

\* C25: min_max_2d gives the same bounds for the interleaved and the
\* separated layout of one coordinate sequence, with and without the
\* empty-point check, NaN coordinates included; no bound is NaN, and the
\* axes after the first two have no influence
C25_LayoutsAgree ==
    MinMaxDone =>
        /\ result.out = min_max_2d(OtherLayout(invocation.args[1]), invocation.args[2])
        /\ \A i \in 1..2, a \in 1..2 : ~is_nan(result.out[i][a])
        /\ invocation.args[1].dim = 3 =>
               \A z \in ZVals : result.out = min_max_2d(WithZ(invocation.args[1], z),
                                                         invocation.args[2])

\* the layouts agree on sequences without a NaN coordinate, and the third
\* axis has no influence
LayoutsAgreeWithoutNaN ==
    MinMaxDone =>
        /\ (\A k \in 1..CoordBufferLen(invocation.args[1]), a \in 1..2 :
                ~is_nan(AllCoords(invocation.args[1])[k][a]))
              => result.out = min_max_2d(OtherLayout(invocation.args[1]), invocation.args[2])
        /\ invocation.args[1].dim = 3 =>
               \A z \in ZVals : result.out = min_max_2d(WithZ(invocation.args[1], z),
                                                         invocation.args[2])

\* node n is a scan with geo metadata of the table called `name`
GeoScanOf(n, name) ==
    /\ plan[n].kind = "TableScan"
    /\ plan[n].geo.present
    /\ plan[n].table_name.table = name

\* node n is the first such scan of the plan
FirstGeoScanOf(n, name) ==
    GeoScanOf(n, name) /\ \A m \in 1..(n - 1) : ~GeoScanOf(m, name)

\* C26: the map of an analyze call is empty when the call starts and holds
\* one entry per unqualified table name, parsed from the first scan of that
\* name the call has passed; a later scan of the same name neither parses
\* its metadata (it cannot fail the call) nor replaces the entry
C26_MemoizedPerCall ==
    /\ (status = "running" /\ pos = 1) => geometa = {}
    /\ \A e1 \in geometa, e2 \in geometa : e1.key = e2.key => e1 = e2
    /\ \A entry \in geometa :
           \E n \in 1..(pos - 1) :
               FirstGeoScanOf(n, entry.key) /\ entry.value = from_json(plan[n].geo)
    /\ status = "err" => FirstGeoScanOf(pos, plan[pos].table_name.table)

\* a second scan of a table name, with other metadata, has been passed and
\* the entry of the first scan is still in the map
C26_SecondScanPassed ==
    /\ status = "running"
    /\ pos = 3
    /\ GeoScanOf(1, "tbl")
    /\ GeoScanOf(2, "tbl")
    /\ plan[2].geo # plan[1].geo
    /\ geometa = {[key |-> "tbl", value |-> from_json(plan[1].geo)]}

\* the position of the first node of the subtree of node n, the plan being
\* in post-order
RECURSIVE SubtreeFirst(_, _)
RECURSIVE SubtreeWalk(_, _, _, _)
SubtreeWalk(p, last, k, first) ==
    IF k = 0 THEN first
    ELSE SubtreeWalk(p, SubtreeFirst(p, last) - 1, k - 1, SubtreeFirst(p, last))
SubtreeFirst(p, n) == SubtreeWalk(p, n - 1, p[n].inputs, n)

\* the scans with geo metadata in the subtree of node n
GeoScansBelow(n) ==
    {m \in SubtreeFirst(plan, n)..(n - 1) : plan[m].kind = "TableScan" /\ plan[m].geo.present}

\* the closure is about to rewrite the expressions of the node at pos
AboutToRewrite == Running /\ plan[pos].kind # "TableScan" /\ tnr # "Jump"

BoundsWiden ==
    /\ acc'.xmin <= acc.xmin
    /\ acc'.ymin <= acc.ymin
    /\ acc'.xmax >= acc.xmax
    /\ acc'.ymax >= acc.ymax

\* C28: every update_batch and merge_batch call leaves xmin and ymin less
\* than or equal to, and xmax and ymax greater than or equal to, their
\* previous values
C28_BoundsMonotone == [][BoundsWiden]_vars

\* the same for the update_batch calls alone
UpdateBatchWidens == [][op' = "update_batch" => BoundsWiden]_vars

\* C29: state() and evaluate() leave the four bounds unchanged, and
\* evaluate() returns the fields xmin, ymin, xmax, ymax holding the
\* accumulator's values of the same names
C29_ReadOnly ==
    /\ [][op' \in {"state", "evaluate"} => acc' = acc]_vars
    /\ [](op = "evaluate" =>
             ret.value = << <<"xmin", acc.xmin>>, <<"ymin", acc.ymin>>,
                            <<"xmax", acc.xmax>>, <<"ymax", acc.ymax>> >>)

\* evaluate() was called on an accumulator that holds the point (0, 1)
C29_EvaluatedPoint ==
    /\ op = "evaluate"
    /\ acc = [xmin |-> 0, ymin |-> 1, xmax |-> 0, ymax |-> 1]
    /\ ret.status = "Ok"

\* the step is a call that was handed no coordinate: update_batch on a
\* native batch without rows or with an empty coordinate buffer, or
\* merge_batch on state arrays without rows
NoCoordinateCall ==
    \/ op' = "update_batch" /\ given'.native /\ (given'.rows = 0 \/ given'.coords = 0)
    \/ op' = "merge_batch" /\ given'.rows = 0

\* C30: update_batch on a native batch with zero rows or an empty
\* coordinate buffer, and merge_batch on state arrays with zero rows,
\* return Ok and leave the four bounds unchanged
C30_NoCoordinatesNoChange ==
    [][NoCoordinateCall => (ret'.status = "Ok" /\ acc' = acc)]_vars

\* the same for the batches that have a row and an empty coordinate buffer
EmptyBufferNoChange ==
    [][(op' = "update_batch" /\ given'.native /\ given'.rows > 0 /\ given'.coords = 0)
          => (ret'.status = "Ok" /\ acc' = acc)]_vars

====
